---- MODULE Spec2Model ----
(***************************************************************************)
(* Model of the project controller of LMGC90_GUI_MVC                       *)
(* (src/controllers/project_controller.py) together with the data records  *)
(* (src/core/models.py), the validators (src/core/validators.py), the      *)
(* position generators (src/core/generators.py) and the snapshot           *)
(* serialisation (ProjectState.to_dict / from_dict).                       *)
(*                                                                         *)
(* Conventions.                                                            *)
(*  - Python lists are sequences; the indices the program stores          *)
(*    (model_avatar_index, generated_indices, group members, targets) are  *)
(*    kept 0-based exactly as the program keeps them; At(s, i) reads       *)
(*    s[i] the Python way.                                                 *)
(*  - An Optional value is a sequence of length 0 (None) or 1.             *)
(*  - A handler is an operator from the controller record to the           *)
(*    controller record; the field exc holds the exception that left the   *)
(*    handler ("" when none) and ret its return value.  Statements that    *)
(*    ran before a raise keep their effect, as in Python.                  *)
(*  - Ghost data (not in the program): uid on a generator config and gen   *)
(*    on an avatar name the generator call that produced the avatar; the   *)
(*    variable last records the latest call and its outcome.               *)
(***************************************************************************)
EXTENDS Integers, Sequences, FiniteSets, TLC

\* ------------------------------------------------------------ bounds
MaxNamed == 2
MaxAvatars == 3
MaxRules == 2
MaxOps == 2
MaxTable == 2
MaxGen == 2
MaxCount == 2
MaxPost == 1
MaxGroup == 4

\* ----------------------------------------------------------- helpers
At(s, i) == s[i + 1]

InRange(i, s) == 0 <= i /\ i < Len(s)

RemoveAt(s, i) == SubSeq(s, 1, i) \o SubSeq(s, i + 2, Len(s))

SetAt(s, i, v) == [s EXCEPT ![i + 1] = v]

Range(s) == {s[k] : k \in 1..Len(s)}

Some(v) == <<v>>

None == <<>>

EmptyDict == [k \in {} |-> 0]

\* a value of a field typed Any (an avatar index or a group name): the pair
\* of its Python type and the value
IntVal(i) == <<"int", i>>

StrVal(s) == <<"str", s>>

PyVal(v) == v[2]

DictSet(d, k, v) == [x \in (DOMAIN d) \cup {k} |-> IF x = k THEN v ELSE d[x]]

DictPop(d, k) == [x \in (DOMAIN d) \ {k} |-> d[x]]

RECURSIVE SortedDesc(_)
SortedDesc(s) ==
    IF s = <<>> THEN <<>>
    ELSE LET m == CHOOSE k \in 1..Len(s) : \A j \in 1..Len(s) : s[j] <= s[k]
         IN  <<s[m]>> \o SortedDesc(SubSeq(s, 1, m - 1) \o SubSeq(s, m + 1, Len(s)))

Raise(c, e) == [c EXCEPT !.exc = e]

Return(c, v) == [c EXCEPT !.ret = v]

Enter(c) == [c EXCEPT !.exc = "", !.ret = None]

\* string length of the names the model draws on (TLC has no Len on strings)
StrLen(s) ==
    CASE s = "" -> 0
      [] s = " " -> 1
      [] s = "toolong" -> 7
      [] OTHER -> 1

Strip(s) == IF s = " " THEN "" ELSE s

DIMENSION == 2

\* ------------------------------------------------------- validators
\* MaterialValidator.validate: "" when valid, else the error raised
MaterialValidator(m) ==
    IF m.name = "" \/ Strip(m.name) = "" THEN "ValidationError"
    ELSE IF StrLen(m.name) > 5 THEN "ValidationError"
    ELSE IF m.density <= 0 THEN "ValidationError"
    ELSE ""

VALID_ELEMENTS_2D == {"Rxx2D", "T3xxx", "Q4xxx", "T6xxx", "Q8xxx", "Q9xxx", "BARxx"}

VALID_ELEMENTS_3D == {"Rxx3D", "H8xxx", "SHB8x", "H20xx", "SHB6x", "TE10x", "DKTxx", "BARxx"}

ModelValidator(m) ==
    IF m.name = "" \/ Strip(m.name) = "" THEN "ValidationError"
    ELSE IF StrLen(m.name) > 5 THEN "ValidationError"
    ELSE IF m.dimension \notin {2, 3} THEN "ValidationError"
    ELSE IF m.element \notin (IF m.dimension = 2 THEN VALID_ELEMENTS_2D
                                                 ELSE VALID_ELEMENTS_3D)
         THEN "ValidationError"
    ELSE ""

ContactLawValidator(law) ==
    IF law.name = "" \/ Strip(law.name) = "" THEN "ValidationError"
    ELSE IF law.law_type \in {"IQS_CLB", "IQS_CLB_g0"}
            /\ (law.friction = None \/ law.friction[1] < 0)
         THEN "ValidationError"
    ELSE ""

DiskLike == {"rigidDisk", "rigidDiscreteDisk", "rigidCluster"}

AvatarValidator(a, dimension) ==
    IF Len(a.center) # dimension THEN "ValidationError"
    ELSE IF a.material_name = "" \/ a.model_name = "" THEN "ValidationError"
    ELSE IF a.avatar_type \in DiskLike /\ (a.radius = None \/ a.radius[1] <= 0)
         THEN "ValidationError"
    ELSE IF a.avatar_type = "rigidJonc" /\ ~({"axe1", "axe2"} \subseteq DOMAIN a.axis)
         THEN "ValidationError"
    ELSE IF a.avatar_type = "rigidPolygon"
            /\ (IF a.generation_type = Some("regular")
                THEN a.nb_vertices = None \/ a.nb_vertices[1] < 3
                ELSE Len(a.vertices) < 3)
         THEN "ValidationError"
    ELSE ""

\* ---------------------------------------------------- named entities
\* _find_material / _find_model / _find_contact_law: the 1-based position of
\* the first entity carrying the name, 0 when there is none (None)
FindByName(s, name) ==
    IF \E k \in 1..Len(s) : s[k].name = name
    THEN CHOOSE k \in 1..Len(s) :
            s[k].name = name /\ \A j \in 1..(k - 1) : s[j].name # name
    ELSE 0

\* list.index(x) / list.remove(x): position of the first element equal to x
IndexOf(s, x) == CHOOSE k \in 1..Len(s) : s[k] = x /\ \A j \in 1..(k - 1) : s[j] # x

\* the backend handle LMGC90Bridge.create_material / create_model /
\* create_contact_law builds: the entity it was built from
create_material(m) == [of |-> m]

create_model(m) == [of |-> m]

create_contact_law(law) == [of |-> law]

add_material(c0, material) ==
    LET c == Enter(c0) IN
    IF MaterialValidator(material) # "" THEN Raise(c, MaterialValidator(material))
    ELSE [c EXCEPT
            !.materials_container = @ \cup {material.name},
            !.pylmgc_materials = DictSet(@, material.name, create_material(material)),
            !.materials = Append(@, material)]

update_material(c0, old_name, material) ==
    LET c == Enter(c0)
        old == FindByName(c.materials, old_name)
        \* the cascade into the avatars (lines 139-141)
        c1 == IF old_name # material.name
              THEN [c EXCEPT !.avatars =
                      [k \in 1..Len(@) |->
                          IF @[k].material_name = old_name
                          THEN [@[k] EXCEPT !.material_name = material.name]
                          ELSE @[k]]]
              ELSE c
    IN
    IF MaterialValidator(material) # "" THEN Raise(c, MaterialValidator(material))
    ELSE IF old = 0 THEN Raise(c, "ValueError")
    ELSE IF old_name # material.name /\ FindByName(c.materials, material.name) # 0
         THEN Raise(c, "ValueError")
    ELSE IF old_name \notin c1.materials_container THEN Raise(c1, "KeyError")
    ELSE [c1 EXCEPT
            !.materials_container = (@ \ {old_name}) \cup {material.name},
            !.pylmgc_materials =
                DictSet(DictPop(@, old_name), material.name, create_material(material)),
            !.materials = [@ EXCEPT ![IndexOf(@, c.materials[old])] = material]]

remove_material(c0, name) ==
    LET c == Enter(c0)
        found == FindByName(c.materials, name)
        c1 == [c EXCEPT !.materials = RemoveAt(@, IndexOf(@, c.materials[found]) - 1)]
    IN
    IF found = 0 THEN Return(c, Some(FALSE))
    ELSE IF name \notin c1.materials_container THEN Raise(c1, "KeyError")
    ELSE Return([c1 EXCEPT !.materials_container = @ \ {name},
                           !.pylmgc_materials = DictPop(@, name)],
                Some(TRUE))

get_material(c, name) ==
    IF FindByName(c.materials, name) = 0 THEN None
    ELSE Some(c.materials[FindByName(c.materials, name)])

is_material_used(c, name) ==
    LET refs == SelectSeq([k \in 1..Len(c.avatars) |->
                              [kind |-> "Avatar", index |-> k - 1,
                               hit |-> c.avatars[k].material_name = name]],
                          LAMBDA r : r.hit)
    IN  [used |-> Len(refs) > 0, refs |-> [k \in 1..Len(refs) |-> refs[k].index]]

add_model(c0, model) ==
    LET c == Enter(c0) IN
    IF ModelValidator(model) # "" THEN Raise(c, ModelValidator(model))
    ELSE [c EXCEPT
            !.models_container = @ \cup {model.name},
            !.pylmgc_models = DictSet(@, model.name, create_model(model)),
            !.models = Append(@, model)]

update_model(c0, old_name, model) ==
    LET c == Enter(c0)
        old == FindByName(c.models, old_name)
        c1 == IF old_name # model.name
              THEN [c EXCEPT !.avatars =
                      [k \in 1..Len(@) |->
                          IF @[k].model_name = old_name
                          THEN [@[k] EXCEPT !.model_name = model.name]
                          ELSE @[k]]]
              ELSE c
    IN
    IF ModelValidator(model) # "" THEN Raise(c, ModelValidator(model))
    ELSE IF old = 0 THEN Raise(c, "ValueError")
    ELSE IF old_name # model.name /\ FindByName(c.models, model.name) # 0
         THEN Raise(c, "ValueError")
    ELSE IF old_name \notin c1.models_container THEN Raise(c1, "KeyError")
    ELSE [c1 EXCEPT
            !.models_container = (@ \ {old_name}) \cup {model.name},
            !.pylmgc_models =
                DictSet(DictPop(@, old_name), model.name, create_model(model)),
            !.models = [@ EXCEPT ![IndexOf(@, c.models[old])] = model]]

remove_model(c0, name) ==
    LET c == Enter(c0)
        found == FindByName(c.models, name)
        c1 == [c EXCEPT !.models = RemoveAt(@, IndexOf(@, c.models[found]) - 1)]
    IN
    IF found = 0 THEN Return(c, Some(FALSE))
    ELSE IF name \notin c1.models_container THEN Raise(c1, "KeyError")
    ELSE Return([c1 EXCEPT !.models_container = @ \ {name},
                           !.pylmgc_models = DictPop(@, name)],
                Some(TRUE))

get_model(c, name) ==
    IF FindByName(c.models, name) = 0 THEN None
    ELSE Some(c.models[FindByName(c.models, name)])

is_model_used(c, name) ==
    LET refs == SelectSeq([k \in 1..Len(c.avatars) |->
                              [kind |-> "Avatar", index |-> k - 1,
                               hit |-> c.avatars[k].model_name = name]],
                          LAMBDA r : r.hit)
    IN  [used |-> Len(refs) > 0, refs |-> [k \in 1..Len(refs) |-> refs[k].index]]

add_contact_law(c0, law) ==
    LET c == Enter(c0) IN
    IF ContactLawValidator(law) # "" THEN Raise(c, ContactLawValidator(law))
    ELSE [c EXCEPT
            !.contact_laws_container = @ \cup {law.name},
            !.pylmgc_laws = DictSet(@, law.name, create_contact_law(law)),
            !.contact_laws = Append(@, law)]

update_contact_law(c0, old_name, law) ==
    LET c == Enter(c0)
        old == FindByName(c.contact_laws, old_name)
        c1 == IF old_name # law.name
              THEN [c EXCEPT !.visibility_rules =
                      [k \in 1..Len(@) |->
                          IF @[k].behavior_name = old_name
                          THEN [@[k] EXCEPT !.behavior_name = law.name]
                          ELSE @[k]]]
              ELSE c
    IN
    IF ContactLawValidator(law) # "" THEN Raise(c, ContactLawValidator(law))
    ELSE IF old = 0 THEN Raise(c, "ValueError")
    ELSE IF old_name # law.name /\ FindByName(c.contact_laws, law.name) # 0
         THEN Raise(c, "ValueError")
    ELSE IF old_name \notin c1.contact_laws_container THEN Raise(c1, "KeyError")
    ELSE [c1 EXCEPT
            !.contact_laws_container = (@ \ {old_name}) \cup {law.name},
            !.pylmgc_laws =
                DictSet(DictPop(@, old_name), law.name, create_contact_law(law)),
            !.contact_laws = [@ EXCEPT ![IndexOf(@, c.contact_laws[old])] = law]]

remove_contact_law(c0, name) ==
    LET c == Enter(c0)
        found == FindByName(c.contact_laws, name)
        c1 == [c EXCEPT !.contact_laws =
                  RemoveAt(@, IndexOf(@, c.contact_laws[found]) - 1)]
    IN
    IF found = 0 THEN Return(c, Some(FALSE))
    ELSE IF name \notin c1.contact_laws_container THEN Raise(c1, "KeyError")
    ELSE Return([c1 EXCEPT !.contact_laws_container = @ \ {name},
                           !.pylmgc_laws = DictPop(@, name)],
                Some(TRUE))

get_contact_law(c, name) ==
    IF FindByName(c.contact_laws, name) = 0 THEN None
    ELSE Some(c.contact_laws[FindByName(c.contact_laws, name)])

is_contact_law_used(c, name) ==
    LET refs == SelectSeq([k \in 1..Len(c.visibility_rules) |->
                              [kind |-> "Rule", index |-> k,
                               hit |-> c.visibility_rules[k].behavior_name = name]],
                          LAMBDA r : r.hit)
    IN  [used |-> Len(refs) > 0, refs |-> [k \in 1..Len(refs) |-> refs[k].index]]

\* ---------------------------------------------------------- avatars
\* LMGC90Bridge.create_avatar: the backend body, built from the avatar and
\* the two handles it was given
create_avatar(avatar, mod_obj, mat_obj) ==
    [of |-> avatar, model |-> mod_obj, material |-> mat_obj]

\* the wall_params keys create_avatar subscripts for each wall kind; a missing
\* key (or wall_params None) raises inside create_avatar
WallRequired ==
    [roughWall |-> {"l", "r"}, fineWall |-> {"l", "r"}, smoothWall |-> {"l", "h"},
     granuloRoughWall |-> {"l", "rmin", "rmax"}, roughWall3D |-> {"l", "r"},
     granuloRoughWall3D |-> {"l", "rmin", "rmax"}]

CreateAvatarRaises(avatar) ==
    /\ avatar.avatar_type \in DOMAIN WallRequired
    /\ ~(WallRequired[avatar.avatar_type] \subseteq DOMAIN avatar.wall_params)

add_avatar(c0, avatar) ==
    LET c == Enter(c0)
        body == create_avatar(avatar, c.pylmgc_models[avatar.model_name],
                              c.pylmgc_materials[avatar.material_name])
    IN
    IF AvatarValidator(avatar, DIMENSION) # ""
    THEN Raise(c, AvatarValidator(avatar, DIMENSION))
    ELSE IF avatar.material_name \notin DOMAIN c.pylmgc_materials
         THEN Raise(c, "ValueError")
    ELSE IF avatar.model_name \notin DOMAIN c.pylmgc_models
         THEN Raise(c, "ValueError")
    ELSE IF CreateAvatarRaises(avatar) THEN Raise(c, "KeyError")
    ELSE Return([c EXCEPT !.bodies_container = Append(@, body),
                          !.pylmgc_bodies = Append(@, body),
                          !.avatars = Append(@, avatar)],
                Some(Len(c.avatars)))

update_avatar(c0, index, avatar) ==
    LET c == Enter(c0)
        body == create_avatar(avatar, c.pylmgc_models[avatar.model_name],
                              c.pylmgc_materials[avatar.material_name])
        old_body == At(c.pylmgc_bodies, index)
    IN
    IF ~InRange(index, c.avatars) THEN Raise(c, "ValueError")
    ELSE IF AvatarValidator(avatar, DIMENSION) # ""
         THEN Raise(c, AvatarValidator(avatar, DIMENSION))
    ELSE IF avatar.material_name \notin DOMAIN c.pylmgc_materials
         THEN Raise(c, "ValueError")
    ELSE IF avatar.model_name \notin DOMAIN c.pylmgc_models
         THEN Raise(c, "ValueError")
    ELSE IF ~InRange(index, c.pylmgc_bodies) THEN Raise(c, "IndexError")
    ELSE IF old_body \notin Range(c.bodies_container) THEN Raise(c, "ValueError")
    ELSE IF CreateAvatarRaises(avatar)
         THEN Raise([c EXCEPT !.bodies_container = RemoveAt(@, IndexOf(@, old_body) - 1)],
                    "KeyError")
    ELSE [c EXCEPT
            !.bodies_container =
                Append(RemoveAt(@, IndexOf(@, old_body) - 1), body),
            !.pylmgc_bodies = SetAt(@, index, body),
            !.avatars = SetAt(@, index, avatar)]

get_avatar(c, index) ==
    IF InRange(index, c.avatars) THEN Some(At(c.avatars, index)) ELSE None

\* the references is_avatar_used lists: the loops (numbered from 1) whose
\* source is the avatar, then the groups holding it
is_avatar_used(c, index) ==
    LET loops == {k \in 1..Len(c.loops) : c.loops[k].model_avatar_index = index}
        groups == {g \in DOMAIN c.avatar_groups : index \in Range(c.avatar_groups[g])}
    IN  [used |-> loops # {} \/ groups # {}, loops |-> loops, groups |-> groups]

remove_avatar(c0, index) ==
    LET c == Enter(c0)
        body == At(c.pylmgc_bodies, index)
        c1 == [c EXCEPT !.avatars = RemoveAt(@, index)]
    IN
    IF ~InRange(index, c.avatars) THEN Return(c, Some(FALSE))
    ELSE IF ~InRange(index, c.pylmgc_bodies) THEN Raise(c, "IndexError")
    ELSE IF body \notin Range(c1.bodies_container) THEN Raise(c1, "ValueError")
    ELSE Return([c1 EXCEPT
                    !.bodies_container = RemoveAt(@, IndexOf(@, body) - 1),
                    !.pylmgc_bodies = RemoveAt(@, index)],
                Some(TRUE))

get_avatars(c, include_generated) ==
    IF include_generated THEN c.avatars
    ELSE SelectSeq(c.avatars, LAMBDA a : a.origin = "manual")

\* ------------------------------------------------- visibility rules
create_visibility_rule(rule, behavior_obj) == [of |-> rule, behav |-> behavior_obj]

add_visibility_rule(c0, rule) ==
    LET c == Enter(c0) IN
    IF rule.behavior_name \notin DOMAIN c.pylmgc_laws THEN Raise(c, "ValueError")
    ELSE [c EXCEPT
            !.visibility_container =
                Append(@, create_visibility_rule(rule, c.pylmgc_laws[rule.behavior_name])),
            !.visibility_rules = Append(@, rule)]

\* the loop of lines 531-534 over rules k..end, onto the fresh table so far
RECURSIVE RecreateRules(_, _, _)
RecreateRules(c, k, table) ==
    IF k > Len(c.visibility_rules)
    THEN [c EXCEPT !.visibility_container = table]
    ELSE IF c.visibility_rules[k].behavior_name \notin DOMAIN c.pylmgc_laws
         THEN Raise([c EXCEPT !.visibility_container = table], "KeyError")
    ELSE RecreateRules(c, k + 1,
            Append(table, create_visibility_rule(c.visibility_rules[k],
                              c.pylmgc_laws[c.visibility_rules[k].behavior_name])))

\* update_visibility_rule without line 525: the rules are re-added onto the
\* table as it was instead of onto a fresh one
update_visibility_rule_onto_old(c0, index, rule) ==
    LET c == Enter(c0) IN
    IF ~InRange(index, c.visibility_rules) THEN Raise(c, "ValueError")
    ELSE IF rule.behavior_name \notin DOMAIN c.pylmgc_laws THEN Raise(c, "ValueError")
    ELSE RecreateRules([c EXCEPT !.visibility_rules = SetAt(@, index, rule)], 1,
                       c.visibility_container)

update_visibility_rule(c0, index, rule) ==
    LET c == Enter(c0) IN
    IF ~InRange(index, c.visibility_rules) THEN Raise(c, "ValueError")
    ELSE IF rule.behavior_name \notin DOMAIN c.pylmgc_laws THEN Raise(c, "ValueError")
    ELSE RecreateRules([c EXCEPT !.visibility_rules = SetAt(@, index, rule)], 1, <<>>)

remove_visibility_rule(c0, index) ==
    LET c == Enter(c0) IN
    IF InRange(index, c.visibility_rules)
    THEN Return([c EXCEPT !.visibility_rules = RemoveAt(@, index)], Some(TRUE))
    ELSE Return(c, Some(FALSE))

\* ---------------------------------------------------- DOF operations
\* the operation kinds a backend body has a method for (getattr succeeds)
BodyMethods == {"translate", "rotate", "imposeDrivenDof", "imposeInitValue"}

\* apply_dof_operation: the targets the operation resolves to, in order; the
\* call on the body (LMGC90Bridge.apply_dof_operation) raises when the body
\* has no such method
DofTargets(c, operation) ==
    IF operation.target_type = "avatar"
    THEN IF InRange(PyVal(operation.target_value), c.pylmgc_bodies)
         THEN <<PyVal(operation.target_value)>> ELSE <<>>
    ELSE IF operation.target_type = "group"
    THEN IF PyVal(operation.target_value) \in DOMAIN c.avatar_groups
         THEN SelectSeq(c.avatar_groups[PyVal(operation.target_value)],
                        LAMBDA i : InRange(i, c.pylmgc_bodies))
         ELSE <<>>
    ELSE <<>>

\* LMGC90Bridge.apply_dof_operation on each target in turn: getattr raises
\* when the body has no such method.  The call made on a body is noted in the
\* ghost field calls: the operation, the index of the body and how many
\* bodies the backend held at that moment.
RECURSIVE ApplyEach(_, _, _, _)
ApplyEach(c, operation, targets, k) ==
    IF k > Len(targets) THEN c
    ELSE IF operation.operation_type \notin BodyMethods THEN Raise(c, "AttributeError")
    ELSE ApplyEach([c EXCEPT !.calls = Append(@, [operation |-> operation,
                                                  index |-> targets[k],
                                                  bodies |-> Len(c.pylmgc_bodies)])],
                   operation, targets, k + 1)

apply_dof_operation(c0, operation) ==
    ApplyEach(Enter(c0), operation, DofTargets(Enter(c0), operation), 1)

\* add_dof_operation recording the operation whether or not the apply step
\* raised
add_dof_operation_always_recording(c0, operation) ==
    [apply_dof_operation(c0, operation) EXCEPT !.operations = Append(@, operation)]

add_dof_operation(c0, operation) ==
    LET OperationApplied(c) == IF c.exc # "" THEN c
                      ELSE [c EXCEPT !.operations = Append(@, operation)]
    IN  OperationApplied(apply_dof_operation(c0, operation))

\* ------------------------------------------------------- generators
\* A coordinate is offset + radius * f(2*pi*k/n), kept symbolic (f is "id"
\* for a plain number: then the value is offset): the program computes
\* them in floating point and nothing folds cos and sin to integers.
Num(x) == [o |-> x, r |-> 0, k |-> 0, n |-> 1, f |-> "id"]

Trig(f, o, r, k, n) == [o |-> o, r |-> r, k |-> k, n |-> n, f |-> f]

\* int(math.ceil(math.sqrt(count))) for count >= 0
CeilSqrt(count) == CHOOSE s \in 0..count : s * s >= count /\ \A t \in 0..(s - 1) : t * t < count

Max(a, b) == IF a >= b THEN a ELSE b

\* range(count) as the sequence 0, 1, ..., count - 1 (empty for count <= 0)
PyRange(count) == [k \in 1..count |-> k - 1]

generate_circle(count, radius, offset_x, offset_y) ==
    [j \in 1..count |-> <<Trig("cos", offset_x, radius, j - 1, count),
                          Trig("sin", offset_y, radius, j - 1, count)>>]

\* the grid filled column by column instead of row by row
generate_grid_column_first(count, step, offset_x, offset_y) ==
    LET side == CeilSqrt(count) IN
    [j \in 1..count |-> <<Num(offset_x + ((j - 1) \div side) * step),
                          Num(offset_y + ((j - 1) % side) * step)>>]

generate_grid(count, step, offset_x, offset_y) ==
    LET side == CeilSqrt(count) IN
    [j \in 1..count |-> <<Num(offset_x + ((j - 1) % side) * step),
                          Num(offset_y + ((j - 1) \div side) * step)>>]

generate_line(count, step, offset_x, offset_y, invert_axis) ==
    [j \in 1..count |->
        IF invert_axis THEN <<Num(offset_x), Num(offset_y + (j - 1) * step)>>
        ELSE <<Num(offset_x + (j - 1) * step), Num(offset_y)>>]

generate_spiral(count, radius, spiral_factor, offset_x, offset_y) ==
    [j \in 1..count |->
        <<Trig("cos", offset_x, radius + (j - 1) * spiral_factor, j - 1,
               Max(1, count \div 5)),
          Trig("sin", offset_y, radius + (j - 1) * spiral_factor, j - 1,
               Max(1, count \div 5))>>]

LoopTypes == {"Cercle", "Grille", "Ligne", "Spirale"}

\* LoopGenerator.generate_positions; an unknown loop_type raises (and so does
\* math.sqrt of a negative count)
PositionsRaise(loop) ==
    loop.loop_type \notin LoopTypes \/ (loop.loop_type = "Grille" /\ loop.count < 0)

generate_positions(loop) ==
    CASE loop.loop_type = "Cercle" ->
            generate_circle(loop.count, loop.radius, loop.offset_x, loop.offset_y)
      [] loop.loop_type = "Grille" ->
            generate_grid(loop.count, loop.step, loop.offset_x, loop.offset_y)
      [] loop.loop_type = "Ligne" ->
            generate_line(loop.count, loop.step, loop.offset_x, loop.offset_y,
                          loop.invert_axis)
      [] loop.loop_type = "Spirale" ->
            generate_spiral(loop.count, loop.radius, loop.spiral_factor,
                            loop.offset_x, loop.offset_y)

\* the for loops of generate_loop / generate_granulo: add_avatar on each new
\* avatar in turn; the first exception leaves the loop.  ret collects the
\* indices (generated_indices).
RECURSIVE AddEach(_, _, _, _)
AddEach(c, new_avatars, k, generated) ==
    LET Added(c1) == IF c1.exc # "" THEN c1
                     ELSE AddEach(c1, new_avatars, k + 1, generated \o c1.ret)
    IN
    IF k > Len(new_avatars) THEN Return(Enter(c), generated)
    ELSE Added(add_avatar(c, new_avatars[k]))

\* "if group_name: ... extend(generated_indices)"
ExtendGroup(c, group_name, generated) ==
    IF group_name = None \/ group_name = Some("") THEN c
    ELSE LET g == group_name[1]
             before == IF g \in DOMAIN c.avatar_groups THEN c.avatar_groups[g] ELSE <<>>
         IN  [c EXCEPT !.avatar_groups = DictSet(@, g, before \o generated)]

\* generate_loop.  slot is 0 when the caller hands in a new Loop object, and
\* the position in state.loops of the object handed in when load replays it
\* (the assignment to loop.generated_indices then changes that entry).
generate_loop(c0, loop, slot) ==
    LET c == Enter(c0)
        idx == loop.model_avatar_index
        model_avatar == IF idx >= 0 THEN At(c.avatars, idx)
                        ELSE At(c.avatars, Len(c.avatars) + idx)
        centers == generate_positions(loop)
        new_avatars == [j \in 1..Len(centers) |->
                          [avatar_type |-> model_avatar.avatar_type,
                           center |-> centers[j],
                           material_name |-> model_avatar.material_name,
                           model_name |-> model_avatar.model_name,
                           origin |-> "loop",
                           radius |-> model_avatar.radius,
                           axis |-> model_avatar.axis,
                           vertices |-> model_avatar.vertices,
                           nb_vertices |-> model_avatar.nb_vertices,
                           generation_type |-> model_avatar.generation_type,
                           wall_params |-> model_avatar.wall_params,
                           gen |-> loop.uid]]
        LoopMade(c1) ==
            LET done == [loop EXCEPT !.generated_indices = c1.ret]
                c2 == IF slot # 0 THEN [c1 EXCEPT !.loops[slot] = done] ELSE c1
                c3 == IF ~c1.is_loading THEN [c2 EXCEPT !.loops = Append(@, done)] ELSE c2
            IN  IF c1.exc # "" THEN c1
                ELSE Return(ExtendGroup(c3, loop.group_name, c1.ret), c1.ret)
    IN
    IF idx >= Len(c.avatars) THEN Raise(c, "ValueError")
    ELSE IF idx < -Len(c.avatars) THEN Raise(c, "IndexError")
    ELSE IF PositionsRaise(loop) THEN Raise(c, "ValueError")
    ELSE LoopMade(AddEach(c, new_avatars, 1, <<>>))

\* "for avatar_idx in sorted(generated_indices, reverse=True): remove_avatar"
RECURSIVE RemoveEach(_, _, _)
RemoveEach(c, indices, k) ==
    LET AvatarRemoved(c1) == IF c1.exc # "" THEN c1 ELSE RemoveEach(c1, indices, k + 1) IN
    IF k > Len(indices) THEN Enter(c)
    ELSE AvatarRemoved(remove_avatar(c, indices[k]))

remove_loop(c0, index) ==
    LET c == Enter(c0)
        LoopRemoved(c1) ==
            IF c1.exc # "" THEN c1
            ELSE Return([c1 EXCEPT !.loops = RemoveAt(@, index)], Some(TRUE))
    IN
    IF ~InRange(index, c.loops) THEN Return(c, Some(FALSE))
    ELSE LoopRemoved(RemoveEach(c, SortedDesc(At(c.loops, index).generated_indices), 1))

get_loop(c, index) == IF InRange(index, c.loops) THEN Some(At(c.loops, index)) ELSE None

ContainerTypes == {"Box2D", "Disk2D", "Couette2D", "Drum2D"}

AvatarTypes ==
    {"rigidDisk", "rigidJonc", "rigidPolygon", "rigidOvoidPolygon", "rigidDiscreteDisk",
     "rigidCluster", "roughWall", "fineWall", "smoothWall", "granuloRoughWall",
     "emptyAvatar", "rigidSphere", "rigidPlan", "rigidCylinder", "rigidPolyhedron",
     "roughWall3D", "granuloRoughWall3D"}

\* GranuloGenerator.generate.  packed is what the external packing routine
\* answers: -1 for no coordinates (None), else the number of particles it
\* seated.  The result is the triple (nb_remaining, coor, radii); the radii
\* are the first nb_remaining sampled ones, the j-th sampled value being
\* abstracted to radius_min + j - 1 (the samples differ from one another).
GranuloRaise(config, packed) == config.container_type \notin ContainerTypes \/ packed = -1

\* pre.granulo_Random: the radii sampled for the requested number of particles
granulo_Random(config) == [j \in 1..config.nb_particles |-> config.radius_min + j - 1]

\* GranuloGenerator.generate without line 153: the radii are handed over
\* untruncated
GranuloGenerate_all_radii(config, packed) ==
    [nb |-> packed,
     coor |-> [j \in 1..packed |-> <<Trig("pack", 0, 0, j - 1, packed),
                                    Trig("pack", 0, 0, j - 1, packed)>>],
     radii |-> granulo_Random(config)]

GranuloGenerate(config, packed) ==
    [nb |-> packed,
     coor |-> [j \in 1..packed |-> <<Trig("pack", 0, 0, j - 1, packed),
                                    Trig("pack", 0, 0, j - 1, packed)>>],
     radii |-> SubSeq(granulo_Random(config), 1, packed)]

generate_granulo(c0, config, packed, slot) ==
    LET c == Enter(c0)
        g == GranuloGenerate(config, packed)
        new_avatars == [j \in 1..g.nb |->
                          [avatar_type |-> config.avatar_type,
                           center |-> g.coor[j],
                           material_name |-> config.material_name,
                           model_name |-> config.model_name,
                           origin |-> "granulo",
                           radius |-> Some(g.radii[j]),
                           axis |-> EmptyDict,
                           vertices |-> <<>>,
                           nb_vertices |-> None,
                           generation_type |-> None,
                           wall_params |-> EmptyDict,
                           gen |-> config.uid]]
        GranuloMade(c1) ==
            LET done == [config EXCEPT !.generated_indices = c1.ret]
                c2 == IF slot # 0 THEN [c1 EXCEPT !.granulo_generations[slot] = done]
                      ELSE c1
                c3 == IF ~c1.is_loading
                      THEN [c2 EXCEPT !.granulo_generations = Append(@, done)]
                      ELSE c2
            IN  IF c1.exc # "" THEN c1
                ELSE Return(ExtendGroup(c3, config.group_name, c1.ret), c1.ret)
    IN
    IF GranuloRaise(config, packed) THEN Raise(c, "ValueError")
    ELSE IF g.nb > 0 /\ config.avatar_type \notin AvatarTypes THEN Raise(c, "ValueError")
    ELSE GranuloMade(AddEach(c, new_avatars, 1, <<>>))

remove_granulo(c0, index) ==
    LET c == Enter(c0)
        GranuloRemoved(c1) ==
            IF c1.exc # "" THEN c1
            ELSE Return([c1 EXCEPT !.granulo_generations = RemoveAt(@, index)], Some(TRUE))
    IN
    IF ~InRange(index, c.granulo_generations) THEN Return(c, Some(FALSE))
    ELSE GranuloRemoved(RemoveEach(c,
                    SortedDesc(At(c.granulo_generations, index).generated_indices), 1))

\* ------------------------------------------------- post-processing
\* the bodies a command is attached to (None when it names no target or none
\* of its targets exists)
RigidSet(c, command) ==
    IF command.target_type = Some("avatar")
    THEN IF InRange(PyVal(command.target_value[1]), c.pylmgc_bodies)
         THEN <<At(c.pylmgc_bodies, PyVal(command.target_value[1]))>> ELSE <<>>
    ELSE IF command.target_type = Some("group")
    THEN IF PyVal(command.target_value[1]) \in DOMAIN c.avatar_groups
         THEN LET inside == SelectSeq(c.avatar_groups[PyVal(command.target_value[1])],
                                      LAMBDA i : InRange(i, c.pylmgc_bodies))
              IN  [k \in 1..Len(inside) |-> At(c.pylmgc_bodies, inside[k])]
         ELSE <<>>
    ELSE <<>>

postpro_command(c, command) == [of |-> command, rigid_set |-> RigidSet(c, command)]

add_postpro_command(c0, command) ==
    LET c == Enter(c0) IN
    [c EXCEPT !.postpro_container = Append(@, postpro_command(c, command)),
              !.postpro_commands = Append(@, command)]

remove_postpro_command(c0, index) ==
    LET c == Enter(c0) IN
    IF InRange(index, c.postpro_commands)
    THEN Return([c EXCEPT !.postpro_commands = RemoveAt(@, index)], Some(TRUE))
    ELSE Return(c, Some(FALSE))

update_postpro_command(c0, index, command) ==
    LET c == Enter(c0)
        c1 == [c EXCEPT !.postpro_commands = SetAt(@, index, command)]
    IN
    IF ~InRange(index, c.postpro_commands) THEN Raise(c, "ValueError")
    ELSE [c1 EXCEPT !.postpro_container =
            [k \in 1..Len(c1.postpro_commands) |->
                postpro_command(c1, c1.postpro_commands[k])]]

\* --------------------------------------------------- serialisation
DictUpdate(d, e) ==
    [x \in (DOMAIN d) \cup (DOMAIN e) |-> IF x \in DOMAIN e THEN e[x] ELSE d[x]]

WallKeys == {"l", "h", "r", "rmin", "rmax", "nb_vertex", "nb_polyg"}

\* Avatar.to_dict: the fixed keys, and in extra the optional numeric keys:
\* 'r' when radius is not None, the axes, then data.update(wall_params);
\* vertices, nb_vertices and gen_type are written only when set (an absent
\* key reads back as None)
AvatarToDict(a) ==
    [type |-> a.avatar_type, center |-> a.center, material |-> a.material_name,
     model |-> a.model_name, origin |-> a.origin,
     vertices |-> a.vertices, nb_vertices |-> a.nb_vertices,
     gen_type |-> IF a.generation_type = Some("") THEN None ELSE a.generation_type,
     extra |-> DictUpdate(
                  DictUpdate(IF a.radius # None THEN DictSet(EmptyDict, "r", a.radius[1])
                             ELSE EmptyDict,
                             [k \in {"axe1", "axe2"} \cap DOMAIN a.axis |-> a.axis[k]]),
                  a.wall_params)]

\* "if self.axis: ... self.controller.state.dimension": Avatar.controller is
\* None on every avatar the program builds, so writing the axes raises
AvatarToDictRaises(a) == a.axis # EmptyDict

\* Avatar.from_dict: radius from 'r', the axes when both are present,
\* wall_params from every wall key present
AvatarFromDict(d) ==
    [avatar_type |-> d.type, center |-> d.center, material_name |-> d.material,
     model_name |-> d.model, origin |-> d.origin,
     radius |-> IF "r" \in DOMAIN d.extra THEN Some(d.extra["r"]) ELSE None,
     axis |-> IF {"axe1", "axe2"} \subseteq DOMAIN d.extra
              THEN [k \in {"axe1", "axe2"} |-> d.extra[k]] ELSE EmptyDict,
     vertices |-> d.vertices, nb_vertices |-> d.nb_vertices,
     generation_type |-> d.gen_type,
     wall_params |-> [k \in (DOMAIN d.extra) \cap WallKeys |-> d.extra[k]],
     gen |-> 0]

MaterialToDict(m) == [name |-> m.name, density |-> m.density]

MaterialFromDict(d) == [name |-> d.name, density |-> d.density]

ModelToDict(m) == [name |-> m.name, element |-> m.element, dimension |-> m.dimension]

ModelFromDict(d) == [name |-> d.name, element |-> d.element, dimension |-> d.dimension]

\* ContactLaw.to_dict writes 'fric' only when friction is not None
ContactLawToDict(law) ==
    [name |-> law.name, law |-> law.law_type,
     opt |-> IF law.friction # None THEN DictSet(EmptyDict, "fric", law.friction[1])
             ELSE EmptyDict]

ContactLawFromDict(d) ==
    [name |-> d.name, law_type |-> d.law,
     friction |-> IF "fric" \in DOMAIN d.opt THEN Some(d.opt["fric"]) ELSE None]

VisibilityRuleToDict(r) == [behav |-> r.behavior_name, alert |-> r.alert]

VisibilityRuleFromDict(d) == [behavior_name |-> d.behav, alert |-> d.alert]

DOFOperationToDict(o) ==
    [type |-> o.operation_type, target |-> o.target_type, target_value |-> o.target_value,
     params |-> o.parameters]

DOFOperationFromDict(d) ==
    [operation_type |-> d.type, target_type |-> d.target, target_value |-> d.target_value,
     parameters |-> d.params]

\* PostProCommand.to_dict writes target_info only when both target fields
\* are set
PostProToDict(p) ==
    [name |-> p.name, step |-> p.step,
     target_info |-> IF p.target_type \notin {None, Some("")} /\ p.target_value # None
                     THEN Some([type |-> p.target_type[1], value |-> p.target_value[1]])
                     ELSE None]

PostProFromDict(d) ==
    [name |-> d.name, step |-> d.step,
     target_type |-> IF d.target_info # None THEN Some(d.target_info[1].type) ELSE None,
     target_value |-> IF d.target_info # None THEN Some(d.target_info[1].value) ELSE None]

LoopToDict(l) ==
    [type |-> l.loop_type, model_avatar_index |-> l.model_avatar_index,
     count |-> l.count, radius |-> l.radius, step |-> l.step,
     offset_x |-> l.offset_x, offset_y |-> l.offset_y,
     spiral_factor |-> l.spiral_factor, invert_axis |-> l.invert_axis,
     stored_in_group |-> l.group_name,
     generated_avatar_indices |-> l.generated_indices, uid |-> l.uid]

LoopFromDict(d) ==
    [loop_type |-> d.type, model_avatar_index |-> d.model_avatar_index,
     count |-> d.count, radius |-> d.radius, step |-> d.step,
     offset_x |-> d.offset_x, offset_y |-> d.offset_y,
     spiral_factor |-> d.spiral_factor, invert_axis |-> d.invert_axis,
     group_name |-> d.stored_in_group,
     generated_indices |-> d.generated_avatar_indices, uid |-> d.uid]

GranuloToDict(g) ==
    [nb |-> g.nb_particles, rmin |-> g.radius_min, rmax |-> g.radius_max,
     container_params |-> [type |-> g.container_type],
     model |-> g.model_name, material |-> g.material_name,
     avatar_type |-> g.avatar_type, seed |-> g.seed,
     stored_in_group |-> g.group_name, avatar_indices |-> g.generated_indices,
     uid |-> g.uid, packed |-> g.packed]

GranuloFromDict(d) ==
    [nb_particles |-> d.nb, radius_min |-> d.rmin, radius_max |-> d.rmax,
     container_type |-> d.container_params.type,
     model_name |-> d.model, material_name |-> d.material,
     avatar_type |-> d.avatar_type, seed |-> d.seed,
     group_name |-> d.stored_in_group, generated_indices |-> d.avatar_indices,
     uid |-> d.uid, packed |-> d.packed]

MapSeq(s, F(_)) == [k \in 1..Len(s) |-> F(s[k])]

\* ProjectState.to_dict with every avatar written, generated ones included
to_dict_unfiltered(c) ==
    [materials |-> MapSeq(c.materials, MaterialToDict),
     models |-> MapSeq(c.models, ModelToDict),
     avatars |-> MapSeq(c.avatars, AvatarToDict),
     contact_laws |-> MapSeq(c.contact_laws, ContactLawToDict),
     visibility_rules |-> MapSeq(c.visibility_rules, VisibilityRuleToDict),
     operations |-> MapSeq(c.operations, DOFOperationToDict),
     loops |-> MapSeq(c.loops, LoopToDict),
     granulo_generations |-> MapSeq(c.granulo_generations, GranuloToDict),
     postpro_creations |-> MapSeq(c.postpro_commands, PostProToDict),
     avatar_groups |-> c.avatar_groups]

\* ProjectState.to_dict: what save_project writes
to_dict(c) ==
    LET manual_avatars == SelectSeq(c.avatars, LAMBDA a : a.origin = "manual") IN
    [materials |-> MapSeq(c.materials, MaterialToDict),
     models |-> MapSeq(c.models, ModelToDict),
     avatars |-> MapSeq(manual_avatars, AvatarToDict),
     contact_laws |-> MapSeq(c.contact_laws, ContactLawToDict),
     visibility_rules |-> MapSeq(c.visibility_rules, VisibilityRuleToDict),
     operations |-> MapSeq(c.operations, DOFOperationToDict),
     loops |-> MapSeq(c.loops, LoopToDict),
     granulo_generations |-> MapSeq(c.granulo_generations, GranuloToDict),
     postpro_creations |-> MapSeq(c.postpro_commands, PostProToDict),
     avatar_groups |-> c.avatar_groups]

\* ProjectState.from_dict, assigned to self.state by load_project
from_dict(c, data) ==
    [c EXCEPT
        !.materials = MapSeq(data.materials, MaterialFromDict),
        !.models = MapSeq(data.models, ModelFromDict),
        !.avatars = MapSeq(data.avatars, AvatarFromDict),
        !.contact_laws = MapSeq(data.contact_laws, ContactLawFromDict),
        !.visibility_rules = MapSeq(data.visibility_rules, VisibilityRuleFromDict),
        !.operations = MapSeq(data.operations, DOFOperationFromDict),
        !.loops = MapSeq(data.loops, LoopFromDict),
        !.granulo_generations = MapSeq(data.granulo_generations, GranuloFromDict),
        !.postpro_commands = MapSeq(data.postpro_creations, PostProFromDict),
        !.avatar_groups = data.avatar_groups,
        !.load_warnings = <<>>]

\* ----------------------------------------------------------- rebuild
_reset_containers(c) ==
    [c EXCEPT !.materials_container = {}, !.models_container = {},
              !.bodies_container = <<>>, !.contact_laws_container = {},
              !.visibility_container = <<>>, !.postpro_container = <<>>,
              !.pylmgc_materials = EmptyDict, !.pylmgc_models = EmptyDict,
              !.pylmgc_bodies = <<>>, !.pylmgc_laws = EmptyDict]

RECURSIVE RebuildMaterials(_, _)
RebuildMaterials(c, k) ==
    IF k > Len(c.materials) THEN c
    ELSE RebuildMaterials(
            [c EXCEPT !.materials_container = @ \cup {c.materials[k].name},
                      !.pylmgc_materials =
                          DictSet(@, c.materials[k].name, create_material(c.materials[k]))],
            k + 1)

RECURSIVE RebuildModels(_, _)
RebuildModels(c, k) ==
    IF k > Len(c.models) THEN c
    ELSE RebuildModels(
            [c EXCEPT !.models_container = @ \cup {c.models[k].name},
                      !.pylmgc_models =
                          DictSet(@, c.models[k].name, create_model(c.models[k]))],
            k + 1)

\* lines 859-871: the manual avatars, straight into the backend
RECURSIVE RebuildManual(_, _, _)
RebuildManual(c, manual_avatars, k) ==
    IF k > Len(manual_avatars) THEN c
    ELSE LET avatar == manual_avatars[k] IN
         IF avatar.material_name \notin DOMAIN c.pylmgc_materials THEN Raise(c, "ValueError")
         ELSE IF avatar.model_name \notin DOMAIN c.pylmgc_models THEN Raise(c, "ValueError")
         ELSE IF CreateAvatarRaises(avatar) THEN Raise(c, "KeyError")
         ELSE LET body == create_avatar(avatar, c.pylmgc_models[avatar.model_name],
                                        c.pylmgc_materials[avatar.material_name])
              IN  RebuildManual([c EXCEPT !.bodies_container = Append(@, body),
                                          !.pylmgc_bodies = Append(@, body)],
                                manual_avatars, k + 1)

\* lines 875-881: every loop in order; an exception becomes a warning
RECURSIVE ReplayLoops(_, _, _)
ReplayLoops(c, k, errors) ==
    LET LoopReplayed(c1) ==
            ReplayLoops(Enter(c1), k + 1,
                IF c1.exc # "" THEN Append(errors, [kind |-> "Boucle", number |-> k,
                                                    exc |-> c1.exc])
                ELSE errors)
    IN
    IF k > Len(c.loops) THEN [c |-> Enter(c), errors |-> errors]
    ELSE LoopReplayed(IF c.loops[k].model_avatar_index >= Len(c.avatars)
                  THEN Raise(c, "ValueError")
                  ELSE generate_loop(c, c.loops[k], k))

\* lines 884-888: every granulo generation in order; packed[k] is what the
\* packing routine answers for the k-th one
RECURSIVE ReplayGranulo(_, _, _, _)
ReplayGranulo(c, k, errors, packed) ==
    LET GranuloReplayed(c1) ==
            ReplayGranulo(Enter(c1), k + 1,
                IF c1.exc # "" THEN Append(errors, [kind |-> "Granulo", number |-> k,
                                                    exc |-> c1.exc])
                ELSE errors,
                packed)
    IN
    IF k > Len(c.granulo_generations) THEN [c |-> Enter(c), errors |-> errors]
    ELSE GranuloReplayed(generate_granulo(c, c.granulo_generations[k], packed[k], k))

RECURSIVE RebuildLaws(_, _)
RebuildLaws(c, k) ==
    IF k > Len(c.contact_laws) THEN c
    ELSE RebuildLaws(
            [c EXCEPT !.contact_laws_container = @ \cup {c.contact_laws[k].name},
                      !.pylmgc_laws =
                          DictSet(@, c.contact_laws[k].name,
                                  create_contact_law(c.contact_laws[k]))],
            k + 1)

RECURSIVE RebuildRules(_, _)
RebuildRules(c, k) ==
    IF k > Len(c.visibility_rules) THEN c
    ELSE LET rule == c.visibility_rules[k] IN
         IF rule.behavior_name \notin DOMAIN c.pylmgc_laws THEN Raise(c, "ValueError")
         ELSE RebuildRules(
                 [c EXCEPT !.visibility_container =
                     Append(@, create_visibility_rule(rule, c.pylmgc_laws[rule.behavior_name]))],
                 k + 1)

\* the replay of lines 910-911 taking the log from its newest entry back to
\* its oldest
RECURSIVE ReplayOperations_newest_first(_, _)
ReplayOperations_newest_first(c, k) ==
    LET OperationReplayed(c1) ==
            IF c1.exc # "" THEN c1 ELSE ReplayOperations_newest_first(c1, k + 1)
    IN
    IF k > Len(c.operations) THEN c
    ELSE OperationReplayed(apply_dof_operation(c, c.operations[Len(c.operations) - k + 1]))

RECURSIVE ReplayOperations(_, _)
ReplayOperations(c, k) ==
    LET OperationReplayed(c1) == IF c1.exc # "" THEN c1 ELSE ReplayOperations(c1, k + 1) IN
    IF k > Len(c.operations) THEN c
    ELSE OperationReplayed(apply_dof_operation(c, c.operations[k]))

_rebuild_pylmgc_objects(c0, packed) ==
    LET AfterContacts(c5) == IF c5.exc # "" THEN c5 ELSE ReplayOperations(c5, 1)
        AfterGranulo(r4) ==
            AfterContacts(RebuildRules(RebuildLaws(
                IF r4.errors # <<>> THEN [r4.c EXCEPT !.load_warnings = r4.errors]
                ELSE r4.c, 1), 1))
        AfterLoops(r3) == AfterGranulo(ReplayGranulo(r3.c, 1, r3.errors, packed))
        AfterManuals(c2) == IF c2.exc # "" THEN c2 ELSE AfterLoops(ReplayLoops(c2, 1, <<>>))
        AfterModels(c1) ==
            AfterManuals(RebuildManual(c1, SelectSeq(c1.avatars, LAMBDA a : a.origin = "manual"), 1))
    IN
    AfterModels(RebuildModels(RebuildMaterials(_reset_containers(Enter(c0)), 1), 1))

\* ProjectState.to_dict raises when one of the avatars it writes does
ToDictRaises(c) ==
    \E k \in 1..Len(c.avatars) :
        c.avatars[k].origin = "manual" /\ AvatarToDictRaises(c.avatars[k])

\* save_project: ret is the snapshot written (ProjectSerializer.save builds
\* state.to_dict() first and turns any exception into IOError, before the
\* file is opened)
save_project(c0) ==
    LET c == Enter(c0) IN
    IF ToDictRaises(c) THEN Raise(c, "IOError") ELSE Return(c, Some(to_dict(c)))

\* load_project of the snapshot data; "finally" clears the loading flag
\* load_project without its finally clause: the loading flag stays set
load_project_still_loading(c0, data, packed) ==
    _rebuild_pylmgc_objects(from_dict([Enter(c0) EXCEPT !.is_loading = TRUE], data), packed)

load_project(c0, data, packed) ==
    [_rebuild_pylmgc_objects(from_dict([Enter(c0) EXCEPT !.is_loading = TRUE], data), packed)
        EXCEPT !.is_loading = FALSE]

new_project(c0) ==
    _reset_containers(
        [Enter(c0) EXCEPT !.materials = <<>>, !.models = <<>>, !.avatars = <<>>,
                          !.contact_laws = <<>>, !.visibility_rules = <<>>,
                          !.operations = <<>>, !.loops = <<>>,
                          !.granulo_generations = <<>>, !.postpro_commands = <<>>,
                          !.avatar_groups = EmptyDict, !.load_warnings = <<>>])

\* ------------------------------------------------------------ state
VARIABLES
    materials, models, avatars, contact_laws, visibility_rules, operations,
    loops, granulo_generations, avatar_groups, load_warnings, is_loading,
    pylmgc_materials, pylmgc_models, pylmgc_laws, pylmgc_bodies,
    materials_container, models_container, contact_laws_container,
    bodies_container, visibility_container,
    postpro_commands, postpro_container,
    nextUid, last

vars ==
    <<materials, models, avatars, contact_laws, visibility_rules, operations,
      loops, granulo_generations, avatar_groups, load_warnings, is_loading,
      pylmgc_materials, pylmgc_models, pylmgc_laws, pylmgc_bodies,
      materials_container, models_container, contact_laws_container,
      bodies_container, visibility_container, postpro_commands, postpro_container,
      nextUid, last>>

\* the controller as one record: self.state's lists, the _pylmgc_* mirrors
\* and the pre.* containers (a mapping container by its keys)
Ctl ==
    [materials |-> materials, models |-> models, avatars |-> avatars,
     contact_laws |-> contact_laws, visibility_rules |-> visibility_rules,
     operations |-> operations, loops |-> loops,
     granulo_generations |-> granulo_generations, avatar_groups |-> avatar_groups,
     load_warnings |-> load_warnings, is_loading |-> is_loading,
     pylmgc_materials |-> pylmgc_materials, pylmgc_models |-> pylmgc_models,
     pylmgc_laws |-> pylmgc_laws, pylmgc_bodies |-> pylmgc_bodies,
     materials_container |-> materials_container,
     models_container |-> models_container,
     contact_laws_container |-> contact_laws_container,
     bodies_container |-> bodies_container,
     visibility_container |-> visibility_container,
     postpro_commands |-> postpro_commands, postpro_container |-> postpro_container,
     calls |-> <<>>, exc |-> "", ret |-> None]

\* the controller after a call, within the model's bounds
Becomes(c) ==
    /\ Len(c.materials) <= MaxNamed
    /\ Len(c.models) <= MaxNamed
    /\ Len(c.contact_laws) <= MaxNamed
    /\ Len(c.avatars) <= MaxAvatars
    /\ Len(c.visibility_rules) <= MaxRules
    /\ Len(c.operations) <= MaxOps
    /\ Len(c.pylmgc_bodies) <= MaxAvatars
    /\ Len(c.bodies_container) <= MaxAvatars
    /\ Len(c.visibility_container) <= MaxTable
    /\ Len(c.postpro_commands) <= MaxPost
    /\ Len(c.postpro_container) <= MaxTable
    /\ \A g \in DOMAIN c.avatar_groups : Len(c.avatar_groups[g]) <= MaxGroup
    /\ materials' = c.materials
    /\ models' = c.models
    /\ avatars' = c.avatars
    /\ contact_laws' = c.contact_laws
    /\ visibility_rules' = c.visibility_rules
    /\ operations' = c.operations
    /\ loops' = c.loops
    /\ granulo_generations' = c.granulo_generations
    /\ avatar_groups' = c.avatar_groups
    /\ load_warnings' = c.load_warnings
    /\ is_loading' = c.is_loading
    /\ pylmgc_materials' = c.pylmgc_materials
    /\ pylmgc_models' = c.pylmgc_models
    /\ pylmgc_laws' = c.pylmgc_laws
    /\ pylmgc_bodies' = c.pylmgc_bodies
    /\ materials_container' = c.materials_container
    /\ models_container' = c.models_container
    /\ contact_laws_container' = c.contact_laws_container
    /\ bodies_container' = c.bodies_container
    /\ visibility_container' = c.visibility_container
    /\ postpro_commands' = c.postpro_commands
    /\ postpro_container' = c.postpro_container

\* what last keeps of a call: the operation, its name or index argument, the
\* return value (paired with the operation that returned it, since the
\* operations return values of different types) and the exception that left it
Call(op, name, index, c) ==
    [op |-> op, name |-> name, index |-> index, ret |-> <<op, c.ret>>, exc |-> c.exc,
     calls |-> c.calls]

\* ProjectController.__init__
Init ==
    /\ materials = <<>>
    /\ models = <<>>
    /\ avatars = <<>>
    /\ contact_laws = <<>>
    /\ visibility_rules = <<>>
    /\ operations = <<>>
    /\ loops = <<>>
    /\ granulo_generations = <<>>
    /\ avatar_groups = EmptyDict
    /\ load_warnings = <<>>
    /\ is_loading = FALSE
    /\ pylmgc_materials = EmptyDict
    /\ pylmgc_models = EmptyDict
    /\ pylmgc_laws = EmptyDict
    /\ pylmgc_bodies = <<>>
    /\ materials_container = {}
    /\ models_container = {}
    /\ contact_laws_container = {}
    /\ bodies_container = <<>>
    /\ visibility_container = <<>>
    /\ postpro_commands = <<>>
    /\ postpro_container = <<>>
    /\ nextUid = 1
    /\ last = [op |-> "init", name |-> "", index |-> -1, ret |-> <<"init", None>>, exc |-> "",
               calls |-> <<>>]

\* ---------------------------------------------------------- actions
AddMaterial(m) ==
    \E c \in {add_material(Ctl, m)} :
    /\ Becomes(c)
    /\ last' = Call("add_material", m.name, -1, c)
    /\ UNCHANGED nextUid

UpdateMaterial(old_name, m) ==
    \E c \in {update_material(Ctl, old_name, m)} :
    /\ Becomes(c)
    /\ last' = Call("update_material", old_name, -1, c)
    /\ UNCHANGED nextUid

RemoveMaterial(name) ==
    \E c \in {remove_material(Ctl, name)} :
    /\ Becomes(c)
    /\ last' = Call("remove_material", name, -1, c)
    /\ UNCHANGED nextUid

AddModel(m) ==
    \E c \in {add_model(Ctl, m)} :
    /\ Becomes(c)
    /\ last' = Call("add_model", m.name, -1, c)
    /\ UNCHANGED nextUid

UpdateModel(old_name, m) ==
    \E c \in {update_model(Ctl, old_name, m)} :
    /\ Becomes(c)
    /\ last' = Call("update_model", old_name, -1, c)
    /\ UNCHANGED nextUid

RemoveModel(name) ==
    \E c \in {remove_model(Ctl, name)} :
    /\ Becomes(c)
    /\ last' = Call("remove_model", name, -1, c)
    /\ UNCHANGED nextUid

AddContactLaw(law) ==
    \E c \in {add_contact_law(Ctl, law)} :
    /\ Becomes(c)
    /\ last' = Call("add_contact_law", law.name, -1, c)
    /\ UNCHANGED nextUid

UpdateContactLaw(old_name, law) ==
    \E c \in {update_contact_law(Ctl, old_name, law)} :
    /\ Becomes(c)
    /\ last' = Call("update_contact_law", old_name, -1, c)
    /\ UNCHANGED nextUid

RemoveContactLaw(name) ==
    \E c \in {remove_contact_law(Ctl, name)} :
    /\ Becomes(c)
    /\ last' = Call("remove_contact_law", name, -1, c)
    /\ UNCHANGED nextUid

AddAvatar(a) ==
    \E c \in {add_avatar(Ctl, a)} :
    /\ Becomes(c)
    /\ last' = Call("add_avatar", "", -1, c)
    /\ UNCHANGED nextUid

UpdateAvatar(index, a) ==
    \E c \in {update_avatar(Ctl, index, a)} :
    /\ Becomes(c)
    /\ last' = Call("update_avatar", "", index, c)
    /\ UNCHANGED nextUid

RemoveAvatar(index) ==
    \E c \in {remove_avatar(Ctl, index)} :
    /\ Becomes(c)
    /\ last' = Call("remove_avatar", "", index, c)
    /\ UNCHANGED nextUid

AddVisibilityRule(r) ==
    \E c \in {add_visibility_rule(Ctl, r)} :
    /\ Becomes(c)
    /\ last' = Call("add_visibility_rule", r.behavior_name, -1, c)
    /\ UNCHANGED nextUid

UpdateVisibilityRule(index, r) ==
    \E c \in {update_visibility_rule(Ctl, index, r)} :
    /\ Becomes(c)
    /\ last' = Call("update_visibility_rule", r.behavior_name, index, c)
    /\ UNCHANGED nextUid

RemoveVisibilityRule(index) ==
    \E c \in {remove_visibility_rule(Ctl, index)} :
    /\ Becomes(c)
    /\ last' = Call("remove_visibility_rule", "", index, c)
    /\ UNCHANGED nextUid

AddDofOperation(o) ==
    \E c \in {add_dof_operation(Ctl, o)} :
    /\ Becomes(c)
    /\ last' = Call("add_dof_operation", "", -1, c)
    /\ UNCHANGED nextUid

ApplyDofOperation(o) ==
    \E c \in {apply_dof_operation(Ctl, o)} :
    /\ Becomes(c)
    /\ last' = Call("apply_dof_operation", "", -1, c)
    /\ UNCHANGED nextUid

AddPostProCommand(p) ==
    \E c \in {add_postpro_command(Ctl, p)} :
    /\ Becomes(c)
    /\ last' = Call("add_postpro_command", p.name, -1, c)
    /\ UNCHANGED nextUid

UpdatePostProCommand(index, p) ==
    \E c \in {update_postpro_command(Ctl, index, p)} :
    /\ Becomes(c)
    /\ last' = Call("update_postpro_command", p.name, index, c)
    /\ UNCHANGED nextUid

RemovePostProCommand(index) ==
    \E c \in {remove_postpro_command(Ctl, index)} :
    /\ Becomes(c)
    /\ last' = Call("remove_postpro_command", "", index, c)
    /\ UNCHANGED nextUid

\* the caller builds a new Loop object (a fresh uid) and hands it in
GenerateLoop(loop) ==
    \E c \in {generate_loop(Ctl, [loop EXCEPT !.uid = nextUid], 0)} :
    /\ nextUid <= MaxGen
    /\ Becomes(c)
    /\ last' = Call("generate_loop", "", loop.model_avatar_index, c)
    /\ nextUid' = IF c.exc = "" THEN nextUid + 1 ELSE nextUid

RemoveLoop(index) ==
    \E c \in {remove_loop(Ctl, index)} :
    /\ Becomes(c)
    /\ last' = Call("remove_loop", "", index, c)
    /\ UNCHANGED nextUid

\* the packing routine answers packed; a seeded configuration is packed the
\* same way every time, which the ghost field packed carries to the replay
GenerateGranulo(config, packed) ==
    \E c \in {generate_granulo(Ctl, [config EXCEPT !.uid = nextUid, !.packed = packed],
                              packed, 0)} :
    /\ nextUid <= MaxGen
    /\ Becomes(c)
    /\ last' = Call("generate_granulo", "", -1, c)
    /\ nextUid' = IF c.exc = "" THEN nextUid + 1 ELSE nextUid

RemoveGranulo(index) ==
    \E c \in {remove_granulo(Ctl, index)} :
    /\ Becomes(c)
    /\ last' = Call("remove_granulo", "", index, c)
    /\ UNCHANGED nextUid

\* what the packing routine may answer when granulo generation k is replayed
ReplayPackings ==
    {p \in [1..Len(granulo_generations) -> -1..MaxCount] :
        \A k \in 1..Len(granulo_generations) :
            /\ p[k] <= granulo_generations[k].nb_particles
            /\ granulo_generations[k].seed # None => p[k] = granulo_generations[k].packed}

\* save_project followed by load_project of the file just written; when the
\* save raises there is no file and nothing is loaded.  A load depends on
\* nothing but the file (it replaces self.state and resets every container),
\* so loading an older file reaches no state that saving and loading at that
\* older moment did not reach.
LoadProject(packed) ==
    \E saved \in {save_project(Ctl)} :
    \E c \in {IF saved.exc # "" THEN saved ELSE load_project(Ctl, saved.ret[1], packed)} :
    /\ Becomes(c)
    /\ last' = Call(IF saved.exc # "" THEN "save_project" ELSE "load_project", "", -1, c)
    /\ UNCHANGED nextUid

NewProject ==
    \E c \in {new_project(Ctl)} :
    /\ Becomes(c)
    /\ last' = Call("new_project", "", -1, c)
    /\ UNCHANGED nextUid

\* ----------------------------------------------------------- inputs
Names == {"a", "b"}

MaterialOf(n, d) == [name |-> n, density |-> d]

ModelOf(n) == [name |-> n, element |-> "Rxx2D", dimension |-> DIMENSION]

ContactLawOf(n) == [name |-> n, law_type |-> "IQS_CLB", friction |-> Some(1)]

RuleOf(n) == [behavior_name |-> n, alert |-> 1]

\* a manual rigid disk at the origin
DiskOf(mat, mod) ==
    [avatar_type |-> "rigidDisk", center |-> <<Num(0), Num(0)>>,
     material_name |-> mat, model_name |-> mod, origin |-> "manual",
     radius |-> Some(1), axis |-> EmptyDict, vertices |-> <<>>, nb_vertices |-> None,
     generation_type |-> None, wall_params |-> EmptyDict, gen |-> 0]

\* a manual rigid jonc at the origin
JoncOf(mat, mod) ==
    [avatar_type |-> "rigidJonc", center |-> <<Num(0), Num(0)>>,
     material_name |-> mat, model_name |-> mod, origin |-> "manual",
     radius |-> None, axis |-> [k \in {"axe1", "axe2"} |-> 1],
     vertices |-> <<>>, nb_vertices |-> None, generation_type |-> None,
     wall_params |-> EmptyDict, gen |-> 0]

\* a rough wall whose wall_params were never filled in
WallOf(mat, mod) ==
    [avatar_type |-> "roughWall", center |-> <<Num(0), Num(0)>>,
     material_name |-> mat, model_name |-> mod, origin |-> "manual",
     radius |-> None, axis |-> EmptyDict, vertices |-> <<>>, nb_vertices |-> None,
     generation_type |-> None, wall_params |-> EmptyDict, gen |-> 0]

\* a polygon given by n vertices
PolygonOf(mat, mod, n) ==
    [avatar_type |-> "rigidPolygon", center |-> <<Num(0), Num(0)>>,
     material_name |-> mat, model_name |-> mod, origin |-> "manual",
     radius |-> Some(1), axis |-> EmptyDict,
     vertices |-> [k \in 1..n |-> <<Num(k), Num(0)>>], nb_vertices |-> None,
     generation_type |-> Some("full"), wall_params |-> EmptyDict, gen |-> 0]

\* the avatars a caller may hand to add_avatar / update_avatar: a disk (over
\* either material name), a disk with a one-coordinate center, a disk without
\* radius, a wall without wall_params, a polygon of 2 or of 3 vertices
AvatarInputs ==
    {DiskOf(mat, "a") : mat \in Names}
        \cup {[DiskOf("a", "a") EXCEPT !.center = <<Num(0)>>],
              [DiskOf("a", "a") EXCEPT !.radius = None],
              WallOf("a", "a"), PolygonOf("a", "a", 2), PolygonOf("a", "a", 3)}

DofOf(kind, target) ==
    [operation_type |-> kind, target_type |-> "avatar", target_value |-> IntVal(target),
     parameters |-> EmptyDict]

GroupDofOf(kind, group) ==
    [operation_type |-> kind, target_type |-> "group", target_value |-> StrVal(group),
     parameters |-> EmptyDict]

\* the operations a caller may hand to apply_dof_operation / add_dof_operation:
\* a translation of avatar 0, of avatar 1, of an index past every avatar, of
\* group g, of a group nobody defined, and a kind no backend body has
DofInputs ==
    {DofOf("translate", i) : i \in {0, 1, MaxAvatars}}
        \cup {GroupDofOf("translate", g) : g \in {"g", "h"}}
        \cup {DofOf("spin", 0)}

PostProOf(n, target) ==
    [name |-> n, step |-> 1, target_type |-> Some("avatar"),
     target_value |-> Some(IntVal(target))]

LoopOf(kind, source, count, group) ==
    [loop_type |-> kind, model_avatar_index |-> source, count |-> count,
     radius |-> 1, step |-> 1, offset_x |-> 0, offset_y |-> 0,
     spiral_factor |-> 0, invert_axis |-> FALSE, group_name |-> group,
     generated_indices |-> <<>>, uid |-> 0]

GranuloOf(nb, mat, mod, seed) ==
    [nb_particles |-> nb, radius_min |-> 1, radius_max |-> 2,
     container_type |-> "Box2D", model_name |-> mod, material_name |-> mat,
     avatar_type |-> "rigidDisk", seed |-> seed, group_name |-> None,
     generated_indices |-> <<>>, uid |-> 0, packed |-> 0]

\* ------------------------------------------------------------- Next
\* the named entities and their referrers; a run edits either the bodies
\* (materials, models, avatars) or the contacts (laws, rules)
NoBodies == materials = <<>> /\ models = <<>> /\ avatars = <<>>

NoContacts == contact_laws = <<>> /\ visibility_rules = <<>>

NextStore ==
    \/ \E n \in Names \cup {""} : NoContacts /\ AddMaterial(MaterialOf(n, 1))
    \/ \E old \in Names, n \in Names : UpdateMaterial(old, MaterialOf(n, 1))
    \/ \E n \in Names : RemoveMaterial(n)
    \/ NoContacts /\ models = <<>> /\ AddModel(ModelOf("a"))
    \/ \E n \in Names : UpdateModel("a", ModelOf(n))
    \/ \E n \in Names : RemoveModel(n)
    \/ \E n \in Names : NoBodies /\ AddContactLaw(ContactLawOf(n))
    \/ \E old \in Names, n \in Names : UpdateContactLaw(old, ContactLawOf(n))
    \/ \E n \in Names : RemoveContactLaw(n)
    \/ \E mat \in Names, mod \in Names : avatars = <<>> /\ AddAvatar(DiskOf(mat, mod))
    \/ RemoveAvatar(0)
    \/ \E n \in Names : AddVisibilityRule(RuleOf(n)) /\ Len(visibility_rules') <= 1
    \/ RemoveVisibilityRule(0)

SpecStore == Init /\ [][NextStore]_vars

\* the avatars and the generators, over one material and one model
NextGen ==
    \/ materials = <<>> /\ AddMaterial(MaterialOf("a", 1))
    \/ RemoveMaterial("a")
    \/ models = <<>> /\ AddModel(ModelOf("a"))
    \/ AddAvatar(DiskOf("a", "a"))
    \/ \E i \in 0..MaxAvatars : RemoveAvatar(i)
    \/ \E src \in {0, MaxAvatars}, n \in 1..MaxCount, g \in {None, Some("g")} :
          GenerateLoop(LoopOf("Cercle", src, n, g))
    \/ \E i \in 0..MaxGen : RemoveLoop(i)
    \/ \E packed \in -1..MaxCount : GenerateGranulo(GranuloOf(MaxCount, "a", "a", None), packed)
    \/ \E i \in 0..MaxGen : RemoveGranulo(i)
    \/ NewProject

SpecGen == Init /\ [][NextGen]_vars

\* the snapshot: save then load, over one material and one model
NextLoad ==
    \/ materials = <<>> /\ AddMaterial(MaterialOf("a", 1))
    \/ models = <<>> /\ AddModel(ModelOf("a"))
    \/ AddAvatar(DiskOf("a", "a"))
    \/ avatars = <<>> /\ AddAvatar(JoncOf("a", "a"))
    \/ \E i \in 0..(MaxAvatars - 1) : UpdateAvatar(i, DiskOf("a", "a"))
    \/ \E i \in 0..(MaxAvatars - 1) : RemoveAvatar(i)
    \/ \E n \in 1..MaxCount : GenerateLoop(LoopOf("Cercle", 0, n, None))
    \/ \E seed \in {None, Some(1)} :
          GenerateGranulo(GranuloOf(MaxCount, "a", "a", seed), MaxCount)
    \/ \E packed \in ReplayPackings : LoadProject(packed)

SpecLoad == Init /\ [][NextLoad]_vars

\* loading a snapshot whose generators cannot all be replayed
NextPartial ==
    \/ materials = <<>> /\ AddMaterial(MaterialOf("a", 1))
    \/ models = <<>> /\ AddModel(ModelOf("a"))
    \/ contact_laws = <<>> /\ AddContactLaw(ContactLawOf("a"))
    \/ RemoveContactLaw("a")
    \/ AddVisibilityRule(RuleOf("a")) /\ Len(visibility_rules') <= 1
    \/ AddAvatar(DiskOf("a", "a"))
    \/ \E i \in 0..(MaxAvatars - 1) : RemoveAvatar(i)
    \/ \E src \in 0..1, n \in 1..MaxCount : GenerateLoop(LoopOf("Cercle", src, n, None))
    \/ \E packed \in 1..MaxCount :
          GenerateGranulo(GranuloOf(MaxCount, "a", "a", Some(1)), packed)
    \/ \E packed \in ReplayPackings : LoadProject(packed)

SpecPartial == Init /\ [][NextPartial]_vars

\* the bodies and their backend mirror: materials, one model, avatars of
\* every input kind
NextMirror ==
    \/ \E n \in Names : AddMaterial(MaterialOf(n, 1))
    \/ UpdateMaterial("a", MaterialOf("b", 1))
    \/ RemoveMaterial("a")
    \/ models = <<>> /\ AddModel(ModelOf("a"))
    \/ \E a \in AvatarInputs : Len(avatars) < 2 /\ AddAvatar(a)
    \/ \E i \in 0..1, a \in {DiskOf("a", "a"), WallOf("a", "a")} : UpdateAvatar(i, a)
    \/ \E i \in 0..1 : RemoveAvatar(i)

SpecMirror == Init /\ [][NextMirror]_vars

\* the wholesale rebuild: a store with one entity of every kind that has a
\* backend object, reset by new_project or saved and loaded again
NextRebuild ==
    \/ materials = <<>> /\ AddMaterial(MaterialOf("a", 1))
    \/ models = <<>> /\ AddModel(ModelOf("a"))
    \/ contact_laws = <<>> /\ AddContactLaw(ContactLawOf("a"))
    \/ AddVisibilityRule(RuleOf("a"))
    \/ Len(avatars) < 2 /\ AddAvatar(DiskOf("a", "a"))
    \/ loops = <<>> /\ GenerateLoop(LoopOf("Cercle", 0, 1, None))
    \/ \E n \in Names : AddPostProCommand(PostProOf(n, 0))
    \/ UpdatePostProCommand(0, PostProOf("b", 0))
    \/ RemovePostProCommand(0)
    \/ \E packed \in ReplayPackings : LoadProject(packed)
    \/ NewProject

SpecRebuild == Init /\ [][NextRebuild]_vars

\* the contact laws and the visibility table
NextRules ==
    \/ \E n \in Names : AddContactLaw(ContactLawOf(n))
    \/ \E n \in Names : RemoveContactLaw(n)
    \/ \E n \in Names : AddVisibilityRule(RuleOf(n))
    \/ \E i \in 0..MaxRules, n \in Names :
          UpdateVisibilityRule(i, [RuleOf(n) EXCEPT !.alert = 2])
    \/ \E i \in 0..MaxRules : RemoveVisibilityRule(i)

SpecRules == Init /\ [][NextRules]_vars

\* the DOF operations: avatars, a grouped loop, operations applied and
\* recorded, and the snapshot saved and loaded again
NextDof ==
    \/ materials = <<>> /\ AddMaterial(MaterialOf("a", 1))
    \/ models = <<>> /\ AddModel(ModelOf("a"))
    \/ Len(avatars) < 2 /\ AddAvatar(DiskOf("a", "a"))
    \/ RemoveAvatar(0)
    \/ loops = <<>> /\ GenerateLoop(LoopOf("Cercle", 0, 1, Some("g")))
    \/ \E o \in DofInputs : ApplyDofOperation(o)
    \/ \E o \in {DofOf("translate", 0), GroupDofOf("translate", "g"), DofOf("spin", 0)} :
          AddDofOperation(o)
    \/ \E packed \in ReplayPackings : LoadProject(packed)

SpecDof == Init /\ [][NextDof]_vars

\* generate_loop with every model_avatar_index around the avatar list, the
\* negative ones included
LoopIndices == (-(MaxAvatars + 1))..MaxAvatars

NextIndex ==
    \/ materials = <<>> /\ AddMaterial(MaterialOf("a", 1))
    \/ models = <<>> /\ AddModel(ModelOf("a"))
    \/ \E av \in {DiskOf("a", "a"), JoncOf("a", "a")} : AddAvatar(av)
    \/ RemoveAvatar(0)
    \/ \E src \in LoopIndices, n \in 1..MaxCount, g \in {None, Some("g")} :
          GenerateLoop(LoopOf("Cercle", src, n, g))
    \/ RemoveLoop(0)

SpecIndex == Init /\ [][NextIndex]_vars

\* renaming the material and the model that a granulo config names, then
\* saving and loading
NextRename ==
    \/ materials = <<>> /\ AddMaterial(MaterialOf("a", 1))
    \/ models = <<>> /\ AddModel(ModelOf("a"))
    \/ Len(avatars) < 2 /\ AddAvatar(DiskOf("a", "a"))
    \/ \E packed \in 1..MaxCount :
          GenerateGranulo(GranuloOf(MaxCount, "a", "a", Some(1)), packed)
    \/ \E old \in Names, new \in Names : UpdateMaterial(old, MaterialOf(new, 1))
    \/ \E old \in Names, new \in Names : UpdateModel(old, ModelOf(new))
    \/ RemoveGranulo(0)
    \/ \E packed \in ReplayPackings : LoadProject(packed)

SpecRename == Init /\ [][NextRename]_vars

\* ------------------------------------------------- LoopGenerator.generate_grid
\* The grid generator on its own: the arguments of a call are drawn in the
\* initial state, and the call leaves its list of centers in last.ret.
MaxGridCount == 9
MaxStep == 2
MaxOffset == 1

GridArgs == (0..MaxGridCount) \X ((-MaxStep)..MaxStep) \X (0..MaxOffset) \X (0..MaxOffset)

InitGrid ==
    /\ materials = <<>>
    /\ models = <<>>
    /\ avatars = <<>>
    /\ contact_laws = <<>>
    /\ visibility_rules = <<>>
    /\ operations = <<>>
    /\ loops = <<>>
    /\ granulo_generations = <<>>
    /\ avatar_groups = EmptyDict
    /\ load_warnings = <<>>
    /\ is_loading = FALSE
    /\ pylmgc_materials = EmptyDict
    /\ pylmgc_models = EmptyDict
    /\ pylmgc_laws = EmptyDict
    /\ pylmgc_bodies = <<>>
    /\ materials_container = {}
    /\ models_container = {}
    /\ contact_laws_container = {}
    /\ bodies_container = <<>>
    /\ visibility_container = <<>>
    /\ postpro_commands = <<>>
    /\ postpro_container = <<>>
    /\ nextUid = 1
    /\ \E a \in GridArgs :
           last = [op |-> "grid_args", name |-> "", index |-> a[1], ret |-> <<"grid_args", a>>,
                   exc |-> "", calls |-> <<>>]

GenerateGrid ==
    /\ last.op = "grid_args"
    /\ LET a == last.ret[2] IN
       last' = [op |-> "generate_grid", name |-> "", index |-> a[1],
                ret |-> <<"generate_grid", generate_grid(a[1], a[2], a[3], a[4])>>,
                exc |-> "", calls |-> <<>>]
    /\ UNCHANGED <<materials, models, avatars, contact_laws, visibility_rules, operations,
                   loops, granulo_generations, avatar_groups, load_warnings, is_loading,
                   pylmgc_materials, pylmgc_models, pylmgc_laws, pylmgc_bodies,
                   materials_container, models_container, contact_laws_container,
                   bodies_container, visibility_container, postpro_commands,
                   postpro_container, nextUid>>

NextGrid == GenerateGrid

SpecGrid == InitGrid /\ [][NextGrid]_vars

Next ==
    \/ NextStore \/ NextGen \/ NextLoad \/ NextPartial \/ NextMirror \/ NextRebuild
    \/ NextRules \/ NextDof \/ NextGrid \/ NextIndex \/ NextRename

Spec == Init /\ [][Next]_vars

\* ----------------------------------------------------------- claims
\* the manual avatars of a list, in order, and the generated ones
Manual(s) == SelectSeq(s, LAMBDA a : a.origin = "manual")

Generated(s) == SelectSeq(s, LAMBDA a : a.origin # "manual")

NoTwoShareAName(s) == \A i, j \in 1..Len(s) : i # j => s[i].name # s[j].name

\* C1: remove_material(name), remove_model(name) and remove_contact_law(name)
\* are refused (the call reports failure and the store keeps the entity)
\* whenever an avatar (for a material or a model) or a visibility rule (for a
\* contact law) still references the name.
C1_RemoveRefusedWhileReferenced ==
    [][\A n \in Names :
        /\ (last'.op = "remove_material" /\ last'.name = n
                /\ is_material_used(Ctl, n).used)
            => (last'.ret[2] # Some(TRUE) /\ materials' = materials)
        /\ (last'.op = "remove_model" /\ last'.name = n
                /\ is_model_used(Ctl, n).used)
            => (last'.ret[2] # Some(TRUE) /\ models' = models)
        /\ (last'.op = "remove_contact_law" /\ last'.name = n
                /\ is_contact_law_used(Ctl, n).used)
            => (last'.ret[2] # Some(TRUE) /\ contact_laws' = contact_laws)]_vars

\* C5: in every reachable state no two materials share a name, no two models
\* share a name and no two contact laws share a name.
C5_NamesUnique ==
    /\ NoTwoShareAName(materials)
    /\ NoTwoShareAName(models)
    /\ NoTwoShareAName(contact_laws)

\* C6: after update_material(old, m), where m.name differs from old and no
\* material carries m.name yet, every avatar that referenced old references
\* m.name, no avatar references old, get_material(old) finds nothing and
\* get_material(m.name) returns m; likewise update_model with the avatars'
\* model names and update_contact_law with the rules' law names.
C6_RenameCascade ==
    [][\A old \in Names, n \in Names :
        /\ (old # n /\ get_material(Ctl, old) # None /\ get_material(Ctl, n) = None
                /\ UpdateMaterial(old, MaterialOf(n, 1)))
            => /\ \A k \in 1..Len(avatars) :
                    avatars[k].material_name = old => avatars'[k].material_name = n
               /\ \A k \in 1..Len(avatars') : avatars'[k].material_name # old
               /\ get_material(Ctl', old) = None
               /\ get_material(Ctl', n) = Some(MaterialOf(n, 1))
        /\ (old # n /\ get_model(Ctl, old) # None /\ get_model(Ctl, n) = None
                /\ UpdateModel(old, ModelOf(n)))
            => /\ \A k \in 1..Len(avatars) :
                    avatars[k].model_name = old => avatars'[k].model_name = n
               /\ \A k \in 1..Len(avatars') : avatars'[k].model_name # old
               /\ get_model(Ctl', old) = None
               /\ get_model(Ctl', n) = Some(ModelOf(n))
        /\ (old # n /\ get_contact_law(Ctl, old) # None /\ get_contact_law(Ctl, n) = None
                /\ UpdateContactLaw(old, ContactLawOf(n)))
            => /\ \A k \in 1..Len(visibility_rules) :
                    visibility_rules[k].behavior_name = old
                        => visibility_rules'[k].behavior_name = n
               /\ \A k \in 1..Len(visibility_rules') :
                    visibility_rules'[k].behavior_name # old
               /\ get_contact_law(Ctl', old) = None
               /\ get_contact_law(Ctl', n) = Some(ContactLawOf(n))]_vars

\* the generator configs of the store: loops, then granulo generations
Configs == loops \o granulo_generations

\* C2: remove_loop(i), and likewise remove_granulo(i), for a valid i deletes
\* exactly the avatars that generator produced, len(generated_indices) of
\* them, and the generator config itself; every other avatar survives in its
\* previous relative order.
C2_RemoveGeneratorExact ==
    [][\A i \in 0..(MaxGen - 1) :
        /\ (InRange(i, loops) /\ RemoveLoop(i))
            => /\ loops' = RemoveAt(loops, i)
               /\ avatars' = SelectSeq(avatars, LAMBDA a : a.gen # At(loops, i).uid)
               /\ Len(avatars) - Len(avatars') = Len(At(loops, i).generated_indices)
        /\ (InRange(i, granulo_generations) /\ RemoveGranulo(i))
            => /\ granulo_generations' = RemoveAt(granulo_generations, i)
               /\ avatars' = SelectSeq(avatars,
                                 LAMBDA a : a.gen # At(granulo_generations, i).uid)
               /\ Len(avatars) - Len(avatars')
                     = Len(At(granulo_generations, i).generated_indices)]_vars

\* C7: remove_avatar(i) is refused, leaving the avatar list unchanged, while
\* avatar i is the source avatar of a loop or a member of an avatar group (the
\* references is_avatar_used(i) reports).
C7_RemoveAvatarRefusedWhileUsed ==
    [][\A i \in 0..MaxAvatars :
        (RemoveAvatar(i) /\ InRange(i, avatars) /\ is_avatar_used(Ctl, i).used)
            => (last'.ret[2] # Some(TRUE) /\ avatars' = avatars)]_vars

\* C8: every avatar whose origin is loop or granulo has its current index in
\* the generated_indices of exactly one generator config, and no
\* generated_indices entry designates a manual avatar or a non-existent index.
C8_GeneratedOwnedByOne ==
    /\ \A k \in 1..Len(avatars) :
          avatars[k].origin # "manual"
              => Cardinality({g \in 1..Len(Configs) :
                                 (k - 1) \in Range(Configs[g].generated_indices)}) = 1
    /\ \A g \in 1..Len(Configs) :
          \A idx \in Range(Configs[g].generated_indices) :
              InRange(idx, avatars) /\ At(avatars, idx).origin # "manual"

\* C10: on a store whose only avatar is manual avatar #0, generate_loop with
\* pattern Cercle, count n > 0 and source 0 returns the indices 1..n, adds
\* exactly n avatars of origin loop sharing avatar #0's kind, material and
\* model, and records the loop with those indices; a following remove_loop(0)
\* removes avatars 1..n, leaves avatar #0 at index 0 and the loop list empty.
C10_CircleLoopThenRemove ==
    [][/\ \A n \in 1..MaxCount, g \in {None, Some("g")} :
            (Len(avatars) = 1 /\ avatars[1].origin = "manual"
                /\ GenerateLoop(LoopOf("Cercle", 0, n, g)))
            => /\ last'.exc = ""
               /\ last'.ret[2] = [j \in 1..n |-> j]
               /\ Len(avatars') = n + 1
               /\ avatars'[1] = avatars[1]
               /\ \A j \in 2..(n + 1) :
                     /\ avatars'[j].origin = "loop"
                     /\ avatars'[j].avatar_type = avatars[1].avatar_type
                     /\ avatars'[j].material_name = avatars[1].material_name
                     /\ avatars'[j].model_name = avatars[1].model_name
               /\ loops' # <<>>
               /\ loops'[Len(loops')].generated_indices = [j \in 1..n |-> j]
       /\ (last.op = "generate_loop" /\ last.exc = "" /\ last.index = 0
             /\ last.ret[2] # <<>> /\ Len(avatars) = Len(last.ret[2]) + 1
             /\ avatars[1].origin = "manual" /\ RemoveLoop(0))
            => (avatars' = <<avatars[1]>> /\ loops' = <<>>)]_vars

\* C3: load(save(store)) yields a store with the identical sequence of manual
\* avatars, materials, models, contact laws, visibility rules and DOF
\* operations, and with as many generator-produced avatars as before the save.
C3_SnapshotRoundTrip ==
    [][last'.op \in {"save_project", "load_project"}
        => /\ last'.op = "load_project"
           /\ last'.exc = ""
           /\ Manual(avatars') = Manual(avatars)
           /\ materials' = materials
           /\ models' = models
           /\ contact_laws' = contact_laws
           /\ visibility_rules' = visibility_rules
           /\ operations' = operations
           /\ Len(Generated(avatars')) = Len(Generated(avatars))]_vars

\* the generators of kind ("Boucle" or "Granulo") that a warning names
Warned(warnings, kind) ==
    {warnings[w].number : w \in {v \in 1..Len(warnings) : warnings[v].kind = kind}}

\* a replayed generator config owns avatars of the loaded store
Replayed(config, s) ==
    /\ config.generated_indices # <<>>
    /\ \A idx \in Range(config.generated_indices) :
          InRange(idx, s) /\ At(s, idx).gen = config.uid

\* C4: loading a snapshot in which some generator configs fail to replay
\* still succeeds overall: every other entity is restored, every generator
\* that no warning names is replayed, and exactly one warning is collected
\* per failing generator, naming it.
C4_PartialFailureLoad ==
    [][(last'.op = "load_project" /\ load_warnings' # <<>>)
        => /\ last'.exc = ""
           /\ materials' = MapSeq(to_dict(Ctl).materials, MaterialFromDict)
           /\ models' = MapSeq(to_dict(Ctl).models, ModelFromDict)
           /\ contact_laws' = MapSeq(to_dict(Ctl).contact_laws, ContactLawFromDict)
           /\ visibility_rules'
                 = MapSeq(to_dict(Ctl).visibility_rules, VisibilityRuleFromDict)
           /\ Manual(avatars') = MapSeq(to_dict(Ctl).avatars, AvatarFromDict)
           /\ Len(loops') = Len(loops)
           /\ Len(granulo_generations') = Len(granulo_generations)
           /\ \A v, w \in 1..Len(load_warnings') :
                 v # w => << load_warnings'[v].kind, load_warnings'[v].number >>
                            # << load_warnings'[w].kind, load_warnings'[w].number >>
           /\ Warned(load_warnings', "Boucle") \subseteq 1..Len(loops')
           /\ Warned(load_warnings', "Granulo") \subseteq 1..Len(granulo_generations')
           /\ \A k \in 1..Len(loops') :
                 k \notin Warned(load_warnings', "Boucle")
                     => Replayed(loops'[k], avatars')
           /\ \A k \in 1..Len(granulo_generations') :
                 k \notin Warned(load_warnings', "Granulo")
                     => Replayed(granulo_generations'[k], avatars')]_vars

\* the position in s of its k-th manual avatar
NthManual(s, k) ==
    CHOOSE i \in 1..Len(s) :
        /\ s[i].origin = "manual"
        /\ Cardinality({j \in 1..i : s[j].origin = "manual"}) = k

Store ==
    <<materials, models, avatars, contact_laws, visibility_rules, operations, loops,
      granulo_generations, postpro_commands, avatar_groups>>

Mirror ==
    <<pylmgc_materials, pylmgc_models, pylmgc_laws, pylmgc_bodies, materials_container,
      models_container, contact_laws_container, bodies_container, visibility_container,
      postpro_container>>

LifecycleOps ==
    {"add_material", "update_material", "remove_material", "add_model", "update_model",
     "remove_model", "add_contact_law", "update_contact_law", "remove_contact_law",
     "add_avatar", "update_avatar", "remove_avatar", "add_visibility_rule",
     "update_visibility_rule", "remove_visibility_rule", "add_dof_operation",
     "add_postpro_command", "update_postpro_command", "remove_postpro_command",
     "generate_loop", "generate_granulo"}

\* C11: a Lifecycle Manager operation that ends in an error leaves the entity
\* store and the backend mirror exactly as they were before the call.
C11_FailedCallChangesNothing ==
    [][(last'.op \in LifecycleOps /\ last'.exc # "")
        => (Store' = Store /\ Mirror' = Mirror)]_vars

\* what the contract of add_avatar lists as grounds for refusal, read off the
\* entity store: an unknown material or model name, a center whose length is
\* not the project dimension, a kind-specific required field that is missing
Refused(a) ==
    \/ get_material(Ctl, a.material_name) = None
    \/ get_model(Ctl, a.model_name) = None
    \/ Len(a.center) # DIMENSION
    \/ a.avatar_type \in {"rigidDisk", "rigidDiscreteDisk", "rigidCluster"}
        /\ (a.radius = None \/ a.radius[1] <= 0)
    \/ a.avatar_type = "rigidPolygon" /\ a.generation_type # Some("regular")
        /\ Len(a.vertices) < 3
    \/ a.avatar_type \in DOMAIN WallRequired
        /\ ~(WallRequired[a.avatar_type] \subseteq DOMAIN a.wall_params)

\* C12: add_avatar(a) fails and appends nothing to the avatar list or the
\* backend body list when a's material or model is not in the store, its center
\* has the wrong length or a required field is missing; otherwise it appends a
\* at the end of both and returns the new index, moving no existing avatar.
C12_AddAvatarRefusesOrAppends ==
    [][\A a \in AvatarInputs :
          AddAvatar(a) =>
              IF Refused(a)
              THEN /\ last'.exc # ""
                   /\ avatars' = avatars
                   /\ pylmgc_bodies' = pylmgc_bodies
                   /\ bodies_container' = bodies_container
              ELSE /\ last'.exc = ""
                   /\ avatars' = Append(avatars, a)
                   /\ last'.ret[2] = Some(Len(avatars))
                   /\ Len(pylmgc_bodies') = Len(pylmgc_bodies) + 1
                   /\ pylmgc_bodies'[Len(pylmgc_bodies')].of = a
                   /\ SubSeq(pylmgc_bodies', 1, Len(pylmgc_bodies)) = pylmgc_bodies]_vars

\* how many times x is registered in a body list
Occurrences(s, x) == Cardinality({k \in 1..Len(s) : s[k] = x})

\* the backend container registers exactly the bodies the controller tracks
SameRegistration(container, bodies) ==
    \A x \in Range(container) \cup Range(bodies) :
        Occurrences(container, x) = Occurrences(bodies, x)

\* C13: update_avatar(i, a), started with every tracked body registered,
\* leaves avatar i registered in the backend in its old or in its new state,
\* also when it fails after detaching the old body: the container registers
\* exactly the tracked bodies, and body i is the one built from store entry i.
C13_UpdateAvatarOldOrNew ==
    [][\A i \in 0..(MaxAvatars - 1), a \in AvatarInputs :
          (/\ UpdateAvatar(i, a)
           /\ i < Len(avatars)
           /\ Len(pylmgc_bodies) = Len(avatars)
           /\ SameRegistration(bodies_container, pylmgc_bodies))
          => /\ SameRegistration(bodies_container', pylmgc_bodies')
             /\ At(avatars', i) \in {At(avatars, i), a}
             /\ At(pylmgc_bodies', i).of = At(avatars', i)]_vars

\* the names of the entities of a stored list
NamesOf(s) == {s[k].name : k \in 1..Len(s)}

\* C14: in every reachable state the names holding a backend material, model
\* or contact-law handle are exactly the names of the stored Materials, Models
\* and ContactLaws, and the backend body list is as long as the avatar list,
\* its position i being the body built from avatar i.
C14_MirrorInLockStep ==
    /\ DOMAIN pylmgc_materials = NamesOf(materials)
    /\ DOMAIN pylmgc_models = NamesOf(models)
    /\ DOMAIN pylmgc_laws = NamesOf(contact_laws)
    /\ Len(pylmgc_bodies) = Len(avatars)
    /\ \A k \in 1..Len(avatars) : pylmgc_bodies[k].of = avatars[k]

\* C15: after new_project and after a successful load the backend mirror holds
\* exactly one backend object for every Material, Model, Avatar, ContactLaw,
\* VisibilityRule and PostProCommand of the store, built from it, and nothing
\* else.
C15_RebuiltWholesale ==
    [][(last'.op \in {"load_project", "new_project"} /\ last'.exc = "")
        => /\ pylmgc_materials' = [n \in NamesOf(materials') |->
                create_material(materials'[FindByName(materials', n)])]
           /\ materials_container' = NamesOf(materials')
           /\ DOMAIN pylmgc_models' = NamesOf(models')
           /\ models_container' = NamesOf(models')
           /\ DOMAIN pylmgc_laws' = NamesOf(contact_laws')
           /\ contact_laws_container' = NamesOf(contact_laws')
           /\ Len(pylmgc_bodies') = Len(avatars')
           /\ \A k \in 1..Len(avatars') : pylmgc_bodies'[k].of = avatars'[k]
           /\ bodies_container' = pylmgc_bodies'
           /\ Len(visibility_container') = Len(visibility_rules')
           /\ \A k \in 1..Len(visibility_rules') :
                 visibility_container'[k].of = visibility_rules'[k]
           /\ Len(postpro_container') = Len(postpro_commands')
           /\ \A k \in 1..Len(postpro_commands') :
                 postpro_container'[k].of = postpro_commands'[k]]_vars

\* C16: add_visibility_rule(r) fails, leaving the rule list and the backend
\* visibility table unchanged, when r.behavior_name names no stored ContactLaw;
\* when the law exists, r is appended at the end of both.
C16_AddRuleNeedsLaw ==
    [][\A n \in Names :
          AddVisibilityRule(RuleOf(n)) =>
              IF get_contact_law(Ctl, n) = None
              THEN /\ last'.exc # ""
                   /\ visibility_rules' = visibility_rules
                   /\ visibility_container' = visibility_container
              ELSE /\ last'.exc = ""
                   /\ visibility_rules' = Append(visibility_rules, RuleOf(n))
                   /\ Len(visibility_container') = Len(visibility_container) + 1
                   /\ visibility_container'[Len(visibility_container')].of = RuleOf(n)
                   /\ SubSeq(visibility_container', 1, Len(visibility_container))
                          = visibility_container]_vars

\* C17: after a successful update_visibility_rule(i, r) the stored rules are
\* the former ones with rule i replaced by r, and the backend table is rebuilt
\* from them: one entry per stored rule, in stored order, each built from its
\* rule and the handle of its law.
C17_UpdateRuleRebuildsTable ==
    [][\A i \in 0..MaxRules, n \in Names :
          LET r == [RuleOf(n) EXCEPT !.alert = 2] IN
          (UpdateVisibilityRule(i, r) /\ last'.exc = "")
          => /\ visibility_rules' = SetAt(visibility_rules, i, r)
             /\ Len(visibility_container') = Len(visibility_rules')
             /\ \A k \in 1..Len(visibility_rules') :
                   visibility_container'[k] =
                       create_visibility_rule(visibility_rules'[k],
                           pylmgc_laws[visibility_rules'[k].behavior_name])]_vars

\* the second of two different rules has just been updated, and the table
\* holds the two rules in stored order
C17_Witness ==
    /\ last.op = "update_visibility_rule"
    /\ last.exc = ""
    /\ last.index = 1
    /\ Len(visibility_rules) = 2
    /\ visibility_rules[1] # visibility_rules[2]
    /\ Len(visibility_container) = 2

\* the avatar indices an operation's target resolves to: the single index, or
\* the members of the named group in group order, without the indices that
\* are out of range; nothing for an unknown group
Resolved(o) ==
    IF o.target_type = "avatar"
    THEN IF InRange(PyVal(o.target_value), avatars) THEN <<PyVal(o.target_value)>>
         ELSE <<>>
    ELSE IF PyVal(o.target_value) \in DOMAIN avatar_groups
    THEN SelectSeq(avatar_groups[PyVal(o.target_value)], LAMBDA i : InRange(i, avatars))
    ELSE <<>>

\* the avatar indices of the backend calls a step made, in call order
CalledOn(calls) == [k \in 1..Len(calls) |-> calls[k].index]

\* C18: apply_dof_operation(op), for an operation kind the backend knows,
\* invokes the backend operation on the avatars its target resolves to, in
\* order and each avatar exactly once, skips out-of-range indices and unknown
\* groups without raising, and changes nothing in the entity store.
C18_ApplyOncePerTarget ==
    [][\A o \in DofInputs :
          (ApplyDofOperation(o) /\ o.operation_type \in BodyMethods)
          => /\ last'.exc = ""
             /\ Store' = Store
             /\ CalledOn(last'.calls) = Resolved(o)
             /\ \A j, k \in 1..Len(last'.calls) :
                   last'.calls[j].index = last'.calls[k].index => j = k
             /\ \A k \in 1..Len(last'.calls) : last'.calls[k].operation = o]_vars

\* C19: add_dof_operation(op) makes the backend calls of apply_dof_operation(op)
\* and then appends op as the last entry of the operation log, which grows by
\* exactly one; if the apply step raises, the log is left as it was; and
\* apply_dof_operation alone never changes the log.
C19_AddAppliesThenRecords ==
    [][\A o \in DofInputs :
          /\ AddDofOperation(o) =>
                /\ last'.calls = apply_dof_operation(Ctl, o).calls
                /\ last'.exc = apply_dof_operation(Ctl, o).exc
                /\ operations' = IF last'.exc = "" THEN Append(operations, o)
                                 ELSE operations
          /\ ApplyDofOperation(o) => operations' = operations]_vars

\* a second operation has just been recorded after the backend call it made
C19_Witness ==
    /\ last.op = "add_dof_operation"
    /\ last.exc = ""
    /\ last.calls # <<>>
    /\ Len(operations) = 2

\* the backend calls one application of operation o makes on a backend of n
\* bodies under the given groups: one call per in-range target, in order
CallsOf(o, groups, n) ==
    LET members == IF o.target_type = "avatar" THEN <<PyVal(o.target_value)>>
                   ELSE IF PyVal(o.target_value) \in DOMAIN groups
                        THEN groups[PyVal(o.target_value)] ELSE <<>>
        targets == SelectSeq(members, LAMBDA i : 0 <= i /\ i < n)
    IN  [k \in 1..Len(targets) |-> [operation |-> o, index |-> targets[k], bodies |-> n]]

\* the calls of applying the operations k.. of a log once each, in log order
RECURSIVE CallsOfLog(_, _, _, _)
CallsOfLog(log, k, groups, n) ==
    IF k > Len(log) THEN <<>>
    ELSE CallsOf(log[k], groups, n) \o CallsOfLog(log, k + 1, groups, n)

\* C20: a successful load applies the recorded DOF operations in their
\* original order, each once, on the backend as it stands after every manual
\* avatar was restored and every generator replayed, and the operation log of
\* the loaded store is the log that was saved.
C20_ReplayInOrderAfterBodies ==
    [][(last'.op = "load_project" /\ last'.exc = "")
        => /\ operations' = operations
           /\ last'.calls = CallsOfLog(operations', 1, avatar_groups', Len(pylmgc_bodies'))
           /\ Len(pylmgc_bodies') = Len(avatars')]_vars

\* a load has just replayed a log of two different operations, one of them on
\* an avatar that a replayed generator produced
C20_Witness ==
    /\ last.op = "load_project"
    /\ last.exc = ""
    /\ Len(operations) = 2
    /\ operations[1] # operations[2]
    /\ \E j, k \in 1..Len(last.calls) : last.calls[j].operation # last.calls[k].operation
    /\ \E k \in 1..Len(last.calls) : At(avatars, last.calls[k].index).origin # "manual"

\* the indices n, n + 1, ..., n + k - 1
IndicesFrom(n, k) == [j \in 1..k |-> n + j - 1]

\* C21: when the packing routine seats k particles of a config whose material
\* and model are stored, the granulo generator returns count k, k positions of
\* two components and the first k sampled radii, and generate_granulo appends
\* exactly k avatars of origin granulo, returns their k indices and records the
\* config once with those indices.
C21_GranuloUsesSeatedCount ==
    [][\A k \in 0..MaxCount :
          LET config == GranuloOf(MaxCount, "a", "a", None)
              g == GranuloGenerate(config, k)
          IN
          (/\ GenerateGranulo(config, k)
           /\ get_material(Ctl, "a") # None
           /\ get_model(Ctl, "a") # None)
          => /\ g.nb = k
             /\ Len(g.coor) = k
             /\ \A j \in 1..k : Len(g.coor[j]) = 2
             /\ g.radii = SubSeq(granulo_Random(config), 1, k)
             /\ last'.exc = ""
             /\ last'.ret[2] = IndicesFrom(Len(avatars), k)
             /\ Len(avatars') = Len(avatars) + k
             /\ SubSeq(avatars', 1, Len(avatars)) = avatars
             /\ \A j \in 1..k :
                   /\ avatars'[Len(avatars) + j].origin = "granulo"
                   /\ avatars'[Len(avatars) + j].center = g.coor[j]
                   /\ avatars'[Len(avatars) + j].radius = Some(granulo_Random(config)[j])
             /\ Len(granulo_generations') = Len(granulo_generations) + 1
             /\ granulo_generations'[Len(granulo_generations')].generated_indices
                    = IndicesFrom(Len(avatars), k)]_vars

\* a packing that seated one particle of the two requested has just been
\* recorded, behind an avatar that was already there
C21_Witness ==
    /\ last.op = "generate_granulo"
    /\ last.exc = ""
    /\ granulo_generations # <<>>
    /\ granulo_generations[Len(granulo_generations)].nb_particles = 2
    /\ granulo_generations[Len(granulo_generations)].generated_indices = <<1>>
    /\ Len(avatars) = 2
    /\ avatars[2].origin = "granulo"

\* C22: when the packing routine returns no positions (no coordinate buffer at
\* all, or an empty one), generate_granulo fails, creates no avatar, records no
\* GranuloGeneration config and touches no group.
C22_NoPositionsFails ==
    [][\A k \in {-1, 0} :
          GenerateGranulo(GranuloOf(MaxCount, "a", "a", None), k)
          => /\ last'.exc # ""
             /\ avatars' = avatars
             /\ pylmgc_bodies' = pylmgc_bodies
             /\ granulo_generations' = granulo_generations
             /\ avatar_groups' = avatar_groups]_vars

\* the 3x3 grid of the unit test, as the centers of nine plain numbers
Grid3x3 ==
    <<<<Num(0), Num(0)>>, <<Num(1), Num(0)>>, <<Num(2), Num(0)>>,
      <<Num(0), Num(1)>>, <<Num(1), Num(1)>>, <<Num(2), Num(1)>>,
      <<Num(0), Num(2)>>, <<Num(1), Num(2)>>, <<Num(2), Num(2)>>>>

\* C23: generate_grid(count, step, offset) returns exactly count centers, the
\* i-th (from 0) being (offset_x + (i mod side) * step, offset_y + (i div side)
\* * step) with side the least integer whose square reaches count; every
\* center is a cell (column, row) of the side-by-side block and the cells are
\* taken row by row, the centers are pairwise distinct when step is not 0,
\* and count 9, step 1, offset (0, 0) gives the 3x3 grid of the unit test.
C23_GridIsRowMajorBlock ==
    [][GenerateGrid =>
        LET a == last.ret[2]
            count == a[1]
            step == a[2]
            ox == a[3]
            oy == a[4]
            centers == last'.ret[2]
            side == CHOOSE s \in 0..count : s * s >= count /\ (s = 0 \/ (s - 1) * (s - 1) < count)
        IN  /\ Len(centers) = count
            /\ \A i \in 0..(count - 1) :
                  /\ centers[i + 1] = <<Num(ox + (i % side) * step), Num(oy + (i \div side) * step)>>
                  /\ \E col \in 0..(side - 1), row \in 0..(side - 1) :
                        /\ i = row * side + col
                        /\ centers[i + 1][1].o = ox + col * step
                        /\ centers[i + 1][2].o = oy + row * step
            /\ step # 0 => \A i, j \in 1..count : i # j => centers[i] # centers[j]
            /\ (count = 9 /\ step = 1 /\ ox = 0 /\ oy = 0) => centers = Grid3x3]_vars

C23_Witness ==
    /\ last.op = "generate_grid"
    /\ last.index = 9
    /\ last.ret[2] = Grid3x3


\* C24: generate_loop(loop) fails with an error, adding no avatar, recording
\* no loop and touching no group, whenever loop.model_avatar_index is not in
\* 0..len(avatars)-1, the negative values included.
C24_InvalidIndexFails ==
    [][\A src \in LoopIndices, n \in 1..MaxCount, g \in {None, Some("g")} :
          (GenerateLoop(LoopOf("Cercle", src, n, g)) /\ src \notin 0..(Len(avatars) - 1)) =>
             /\ last'.exc # ""
             /\ avatars' = avatars
             /\ pylmgc_bodies' = pylmgc_bodies
             /\ loops' = loops
             /\ avatar_groups' = avatar_groups]_vars


\* C25: after any sequence of add / update / remove_visibility_rule calls the
\* visibility table holds exactly one entry per stored rule, in stored order,
\* and after any sequence of add / update / remove_postpro_command calls the
\* post-processing command list holds one entry per stored command, in stored
\* order.
C25_TablesFollowStores ==
    /\ Len(visibility_container) = Len(visibility_rules)
    /\ \A k \in 1..Len(visibility_rules) : visibility_container[k].of = visibility_rules[k]
    /\ Len(postpro_container) = Len(postpro_commands)
    /\ \A k \in 1..Len(postpro_commands) : postpro_container[k].of = postpro_commands[k]


\* the same avatar up to the fields a round trip through the file rewrites
SameAvatar(a, b) ==
    /\ a.origin = b.origin
    /\ a.gen = b.gen
    /\ a.avatar_type = b.avatar_type
    /\ a.center = b.center
    /\ a.material_name = b.material_name
    /\ a.model_name = b.model_name

\* C26: after load(save(store)) each avatar sits at the same index as before
\* the save, so every index held by a loop, a group, a DOF operation or a
\* post-processing command designates the same avatar as before, also when
\* manual avatars were created after generated ones (stated for stores whose
\* generators are loops, which replay the same avatars).
C26_LoadKeepsAvatarIndices ==
    [][\A packed \in ReplayPackings :
          (LoadProject(packed) /\ last'.op = "load_project" /\ last'.exc = ""
             /\ granulo_generations = <<>> /\ load_warnings' = <<>>)
          => /\ Len(avatars') = Len(avatars)
             /\ \A k \in 1..Len(avatars) : SameAvatar(avatars'[k], avatars[k])]_vars


\* C27: in every reachable state every index stored in a group designates an
\* existing avatar, and a group filled by a generator contains each of that
\* generator's avatars exactly once and no manual avatar.
C27_GroupsDesignateGenerated ==
    /\ \A g \in DOMAIN avatar_groups : \A k \in 1..Len(avatar_groups[g]) :
          /\ avatar_groups[g][k] \in 0..(Len(avatars) - 1)
          /\ At(avatars, avatar_groups[g][k]).origin # "manual"
    /\ \A n \in 1..Len(Configs) :
          LET config == Configs[n] IN
          (config.group_name # None /\ config.group_name # Some(""))
          => /\ config.group_name[1] \in DOMAIN avatar_groups
             /\ \A i \in 0..(Len(avatars) - 1) :
                   At(avatars, i).gen = config.uid
                   => Occurrences(avatar_groups[config.group_name[1]], i) = 1


UidsOf(s) == [k \in 1..Len(s) |-> s[k].uid]

\* C28: each generator config is recorded exactly once: a load, whether it
\* returns or raises, keeps the number and order of the loop and granulo
\* configs and leaves the loading flag cleared, and every successful
\* generate_loop / generate_granulo call appends its config exactly once.
C28_ConfigsRecordedOnce ==
    [][/\ \A packed \in ReplayPackings :
             (LoadProject(packed) /\ last'.op = "load_project")
             => /\ is_loading' = FALSE
                /\ UidsOf(loops') = UidsOf(loops)
                /\ UidsOf(granulo_generations') = UidsOf(granulo_generations)
       /\ \A src \in 0..1, n \in 1..MaxCount :
             (GenerateLoop(LoopOf("Cercle", src, n, None)) /\ last'.exc = "")
             => /\ is_loading' = FALSE
                /\ UidsOf(loops') = Append(UidsOf(loops), nextUid)
                /\ Occurrences(UidsOf(Configs'), nextUid) = 1
                /\ granulo_generations' = granulo_generations
       /\ \A packed \in 1..MaxCount :
             (GenerateGranulo(GranuloOf(MaxCount, "a", "a", Some(1)), packed) /\ last'.exc = "")
             => /\ is_loading' = FALSE
                /\ UidsOf(granulo_generations') = Append(UidsOf(granulo_generations), nextUid)
                /\ Occurrences(UidsOf(Configs'), nextUid) = 1
                /\ loops' = loops]_vars

\* a generate call succeeded after a load (one that left a warning behind)
C28_Witness ==
    /\ last.op \in {"generate_loop", "generate_granulo"}
    /\ last.exc = ""
    /\ Len(Configs) = 2
    /\ load_warnings # <<>>
    /\ ~is_loading

\* C29: after a load in which a generator's replay failed (a warning was
\* collected for it), the generated_indices of that generator designate no
\* avatar of the loaded store.
C29_FailedReplayOwnsNothing ==
    [][\A packed \in ReplayPackings :
          (LoadProject(packed) /\ last'.op = "load_project")
          => \A w \in 1..Len(load_warnings') :
                LET config == IF load_warnings'[w].kind = "Boucle"
                              THEN loops'[load_warnings'[w].number]
                              ELSE granulo_generations'[load_warnings'[w].number]
                IN  \A k \in 1..Len(config.generated_indices) :
                       config.generated_indices[k] \notin 0..(Len(avatars') - 1)]_vars


\* C30: renaming, through update_material or update_model, an entity that a
\* granulo config names keeps the config replayable: its material and model
\* references still resolve after the rename, and a load of the saved store
\* collects no warning for it.
C30_RenameKeepsGranuloReplayable ==
    [][/\ \A old \in Names, new \in Names :
             ((UpdateMaterial(old, MaterialOf(new, 1)) \/ UpdateModel(old, ModelOf(new)))
                /\ last'.exc = ""
                /\ \A k \in 1..Len(granulo_generations) :
                      /\ get_material(Ctl, granulo_generations[k].material_name) # None
                      /\ get_model(Ctl, granulo_generations[k].model_name) # None)
             => \A k \in 1..Len(granulo_generations') :
                   /\ FindByName(materials', granulo_generations'[k].material_name) # 0
                   /\ FindByName(models', granulo_generations'[k].model_name) # 0
       /\ \A packed \in ReplayPackings :
             (LoadProject(packed) /\ last'.op = "load_project")
             => \A w \in 1..Len(load_warnings') : load_warnings'[w].kind # "Granulo"]_vars


====
